---------------------------- MODULE Spec2Model ----------------------------
(***************************************************************************)
(* WebModelDelivery: shard reassembly (full and ranged reads), shard fetch *)
(* de-duplication and the progress state machine of model-sw.js (the       *)
(* service worker) and model-resolver-node.mjs (the in-process resolver),  *)
(* and the packages model-packager.sh writes for them.                     *)
(*                                                                         *)
(* The specifications of the module, by subsystem:                         *)
(*   SpecRange    one intercepted read of one filemap entry               *)
(*   SpecShard    concurrent fetchShard / fetchShardSlice calls (worker)  *)
(*   SpecNode     concurrent _fetchShardBuf calls (in-process resolver)   *)
(*   Spec         the worker's per-source progress state machine          *)
(*   SpecLive     Spec with the two timers' callbacks eventually running  *)
(*   SpecFmap     loading and caching of filemap.json per source          *)
(*   SpecMatch    matching of request paths against registered sources    *)
(*   SpecHook     the in-process resolver's fetch hook                    *)
(*   SpecResolve  resolve() of the in-process resolver on a cache folder  *)
(*   SpecPack     runs of model-packager.sh on one output directory       *)
(*   SpecPackFail runs of which some end at a failing command             *)
(* The variables of the other subsystems stay at their idle value.         *)
(***************************************************************************)
EXTENDS Integers, Sequences, FiniteSets, Bags, TLC

\* ------------------------------------------------------------------ bounds
\* shards per entry, bytes per shard
MaxShards == 3
MaxShardSize == 2
\* concurrent fetchShard / fetchShardSlice / _fetchShardBuf calls
MaxCallers == 2
\* intercepted requests of one source in flight at once
MaxInflight == 2
\* filemap.json fetches of one source in flight at once
MaxLoads == 1
\* load tasks (filemapLoading promises) created for one source key
MaxTasks == 3
\* registered sources, characters of a pathPrefix option, characters of a path
MaxSources == 2
MaxPrefixLen == 2
MaxPathLen == 3
\* resolvers in one process, wrapper functions one resolver creates
MaxResolvers == 2
MaxInstalls == 2
\* bytes of a packaged file, resolve() calls on one source
MaxFileLen == 3
MaxRuns == 2
\* the packager's --chunk-size (CHUNK_SIZE), scaled to the files above
ChunkSize == 1
\* input files of one packager run, packager runs on one output directory
MaxInputs == 2
MaxPackRuns == 2
\* packager runs on one output directory when runs can be interrupted
MaxFailRuns == 3

\* the resolver's default retry count (opts.retries ?? 3)
Retries == 3

Callers == 1..MaxCallers
Urls == {"x", "y"}

VARIABLES
  \* one intercepted read (handleModelFetch / _handleFetch)
  rImpl,      \* "sw" (model-sw.js) or "node" (model-resolver-node.mjs)
  rEntry,     \* the filemap entry that the request path resolves to
  rReq,       \* the request: [range |-> has a Range header, start, end]
  rPc,        \* "start", "fetch", "unsharded", "done" (a Response), "error" (rejected)
  rParts,     \* respondRange's parts still to fetch
  rBuffers,   \* respondRange's buffers, fetched so far
  rWays,      \* how the parts fetched so far were obtained
  rNet,       \* network fetches this request has issued
  rResp,      \* the Response, once rPc = "done"
  rStream     \* the Response's body stream: "none" (a buffer), "open", "closed", "errored"

VARIABLES
  \* concurrent fetchShard / fetchShardSlice calls in the worker
  sKind,      \* caller -> "full" (fetchShard) | "slice" (fetchShardSlice)
  sUrl,       \* caller -> the shard URL it needs
  sPc,        \* caller -> where the call stands
  sResult,    \* caller -> <<>> | <<"bytes", url>> | <<"error">>
  sCache,     \* URLs held by Cache Storage (CACHE_NAME)
  sCache0,    \* the URLs it held when the calls started
  sInflight,  \* shardInflight: URL -> the caller whose fetch it holds, 0 if none
  sNetActive, \* URL -> network fetches of it in progress
  sNetGets    \* URL -> network fetches of it issued so far

VARIABLES
  \* concurrent _fetchShardBuf calls in the in-process resolver
  nUrl,       \* caller -> the shard URL it needs
  nPc,        \* caller -> "start" | "fetching" | "backoff" | "done" | "failed"
  nAttempt,   \* caller -> the loop counter i of its retry loop
  nResult,    \* caller -> <<>> | <<"bytes", url>> | <<"error">>
  nDisk,      \* URLs whose shard is in the cache directory
  nDisk0,     \* the URLs that were there when the calls started
  nNetActive, \* URL -> network fetches of it in progress
  nNetGets,   \* URL -> network fetches of it issued so far
  nNetFailed, \* URL -> attempts on it that ended in the catch block
  nWriteFailed, \* caller -> its attempts whose fetch succeeded and whose cache write threw
  nTries      \* caller -> the fetchFn(url) calls its _fetchShardBuf call has made

VARIABLES
  \* the worker's progress state machine, one progress-enabled source
  cdnFm,      \* the filemap.json the source's CDN serves
  srcMan,     \* the registered source's manifest option ("" when omitted)
  fmLoaded,   \* filemaps.has(cdnBase)
  fmFetches,  \* filemap.json fetches in flight
  pst,        \* progressState.get(pathPrefix)
  reqs,       \* the intercepted requests in flight (a bag)
  bTimers,    \* the broadcast timeouts set for the source and neither run nor cleared
  evLast      \* the last MODEL_SW_PROGRESS message since the last init

VARIABLES
  \* loadFilemap / _loadFilemap calls for one source key
  fImpl,      \* "sw" | "node" (remote source) | "nodeLocal" (local directory)
  fMemo,      \* filemaps.has(key)
  fSlot,      \* the load task whose promise filemapLoading holds for key, 0: none
  fTask,      \* load task -> "unused" | "fetching" | "ok" | "failed"
  fDisk,      \* the resolver's filemap file in cacheDir exists
  fPc,        \* caller -> "idle" | "waiting" | "done"
  fWait,      \* caller -> the load task whose promise it was handed, 0: none
  fRes        \* caller -> "none" | "data" | "null"

VARIABLES
  \* matchSource / _matchSource
  mSources,   \* the registered sources, in registration order
  mPath,      \* the pathname of the last request
  mMatch      \* what matchSource returned for it

VARIABLES
  \* installFetchHook / removeFetchHook of the in-process resolvers
  gFetch,     \* globalThis.fetch: the function stored there
  hOrig,      \* resolver -> this._originalFetch
  hHooked,    \* resolver -> this._hooked
  hGen,       \* resolver -> wrapper functions it has created so far
  hBefore,    \* resolver -> globalThis.fetch before its first install since its last remove
  hInst,      \* resolver -> installFetchHook calls since its last remove (0, 1, 2: more)
  cMatch,     \* the resolvers whose sources the URL of the last fetch call matches
  cPath,      \* the functions the last fetch call ran, in call order
  cEnd        \* who answered it: "none" | "native" | "handled" | "overflow"

VARIABLES
  \* resolve() calls of one resolver on one source
  zFm,        \* the source's filemap.json: [files, manifests]
  zStore,     \* the source's objects: CDN name -> bytes
  zVerify,    \* this.verifySha256
  zMemo,      \* this._filemaps.has(sourceKey)
  zOut,       \* the output directories: directory -> virtual path -> bytes or NoFile
  zPc,        \* "idle" | "loop" (in the for loop) | "done" | "failed"
  zIdx,       \* the position of the for loop in the file list
  zCalls,     \* the resolve calls so far: [manifest, result, dir, reads, writes]
  zLoaded,    \* loadedBytes of the running call
  zTotal,     \* totalBytes of the running call
  zEvents     \* the onProgress events of the running (or last) call

VARIABLES
  \* runs of model-packager.sh on one output directory
  pOut,       \* the output directory's CDN objects: name -> bytes
  pFm,        \* its filemap.json: [exists, files (in file order), manifests]
  pHist       \* the runs so far: [inputs, merge, manifest, exit, wrote, fm (after the run)]

rangeVars == <<rImpl, rEntry, rReq, rPc, rParts, rBuffers, rWays, rNet, rResp, rStream>>
shardVars == <<sKind, sUrl, sPc, sResult, sCache, sCache0, sInflight, sNetActive, sNetGets>>
nodeVars == <<nUrl, nPc, nAttempt, nResult, nDisk, nDisk0, nNetActive, nNetGets, nNetFailed,
              nWriteFailed, nTries>>

progVars == <<cdnFm, srcMan, fmLoaded, fmFetches, pst, reqs, bTimers, evLast>>
fmapVars == <<fImpl, fMemo, fSlot, fTask, fDisk, fPc, fWait, fRes>>
matchVars == <<mSources, mPath, mMatch>>
hookVars == <<gFetch, hOrig, hHooked, hGen, hBefore, hInst, cMatch, cPath, cEnd>>
resolveVars == <<zFm, zStore, zVerify, zMemo, zOut, zPc, zIdx, zCalls, zLoaded, zTotal, zEvents>>
packVars == <<pOut, pFm, pHist>>

vars == <<rangeVars, shardVars, nodeVars, progVars, fmapVars, matchVars, hookVars, resolveVars, packVars>>

\* what the actions of one subsystem leave alone
notRange == <<shardVars, nodeVars, progVars, fmapVars, matchVars, hookVars, resolveVars, packVars>>
notShard == <<rangeVars, nodeVars, progVars, fmapVars, matchVars, hookVars, resolveVars, packVars>>
notNode == <<rangeVars, shardVars, progVars, fmapVars, matchVars, hookVars, resolveVars, packVars>>
notProg == <<rangeVars, shardVars, nodeVars, fmapVars, matchVars, hookVars, resolveVars, packVars>>
notFmap == <<rangeVars, shardVars, nodeVars, progVars, matchVars, hookVars, resolveVars, packVars>>
notMatch == <<rangeVars, shardVars, nodeVars, progVars, fmapVars, hookVars, resolveVars, packVars>>
notHook == <<rangeVars, shardVars, nodeVars, progVars, fmapVars, matchVars, resolveVars, packVars>>
notResolve == <<rangeVars, shardVars, nodeVars, progVars, fmapVars, matchVars, hookVars, packVars>>
notPack == <<rangeVars, shardVars, nodeVars, progVars, fmapVars, matchVars, hookVars, resolveVars>>

\* ----------------------------------------------------------------- helpers
Min(a, b) == IF a <= b THEN a ELSE b
Max(a, b) == IF a >= b THEN a ELSE b

RECURSIVE SumSeq(_)
SumSeq(s) == IF s = <<>> THEN 0 ELSE Head(s) + SumSeq(Tail(s))

RECURSIVE Concat(_)
Concat(ss) == IF ss = <<>> THEN <<>> ELSE Head(ss) \o Concat(Tail(ss))

\* ArrayBuffer.prototype.slice(a, b) / Buffer.subarray(a, b) for 0 <= a:
\* bytes a .. b-1, the end clamped to the length.
Slice(buf, a, b) == SubSeq(buf, a + 1, Min(b, Len(buf)))

\* ------------------------------------------------------- filemap entries
\* A sharded entry as the packager writes it: the shards in order, each
\* offset the sum of the sizes before it, size the sum of the shard sizes.
MkSharded(sizes) ==
  [sharded |-> TRUE,
   size    |-> SumSeq(sizes),
   shards  |-> [i \in 1..Len(sizes) |->
                 [file |-> i, offset |-> SumSeq(SubSeq(sizes, 1, i - 1)), size |-> sizes[i]]]]

\* An unsharded entry: one CDN object (file 0) holding all of [0, size).
MkUnsharded(n) ==
  [sharded |-> FALSE, size |-> n, shards |-> <<[file |-> 0, offset |-> 0, size |-> n]>>]

ShardedEntries ==
  {MkSharded(ss) : ss \in UNION {[1..n -> 1..MaxShardSize] : n \in 1..MaxShards}}

UnshardedEntries == {MkUnsharded(n) : n \in 1..MaxShardSize}

\* The bytes of CDN object `sh`: every byte of every object is distinct, so a
\* misplaced or missing byte shows.
ShardBytes(sh) == [j \in 1..sh.size |-> 16 * sh.file + (j - 1)]

\* What the CDN answers to "Range: bytes=a-b" on object `sh` with a 206.
CdnRange(sh, a, b) == SubSeq(ShardBytes(sh), a + 1, Min(b, sh.size - 1) + 1)

\* The body of a full read: the shard bodies in listed order.
FullBody(entry) == Concat([i \in 1..Len(entry.shards) |-> ShardBytes(entry.shards[i])])

\* ---------------------------------------------------------- range reads
\* The Range header "bytes=start-[end]"; endGiven = -1 stands for an open end.
ParseEnd(entry, endGiven) == IF endGiven # -1 THEN endGiven ELSE entry.size - 1

\* (mutant) the end is not clamped to the last byte
ClampEndNone(entry, end) == end

ClampEnd(entry, end) == Min(end, entry.size - 1)

\* (mutant) the test for an inverted range is lost
UnsatisfiableNoOrder(entry, start, end) == start >= entry.size

Unsatisfiable(entry, start, end) == start > end \/ start >= entry.size

RECURSIVE PartsFrom(_, _, _, _)
PartsFrom(entry, start, end, i) ==
  IF i > Len(entry.shards) THEN <<>>
  ELSE LET shard == entry.shards[i]
           sEnd  == shard.offset + shard.size - 1
       IN IF sEnd < start THEN PartsFrom(entry, start, end, i + 1)
          ELSE IF shard.offset > end THEN <<>>
          ELSE <<[shard     |-> shard,
                  subStart  |-> Max(start, shard.offset) - shard.offset,
                  subEnd    |-> Min(end, sEnd) - shard.offset,
                  shardSize |-> shard.size]>>
               \o PartsFrom(entry, start, end, i + 1)

RangeParts(entry, start, end) == PartsFrom(entry, start, end, 1)

\* (mutant) the shards are read last to first
FullPartsReversed(entry) ==
  [i \in 1..Len(entry.shards) |->
    LET sh == entry.shards[Len(entry.shards) + 1 - i]
    IN [shard |-> sh, subStart |-> 0, subEnd |-> sh.size - 1, shardSize |-> sh.size]]

\* respondFull / _respondFull read every listed shard whole, in listed order.
FullParts(entry) ==
  [i \in 1..Len(entry.shards) |->
    [shard |-> entry.shards[i], subStart |-> 0,
     subEnd |-> entry.shards[i].size - 1, shardSize |-> entry.shards[i].size]]

WholePart(p) == p.subStart = 0 /\ p.subEnd = p.shardSize - 1

Resp416(entry) ==
  [status |-> 416, contentRange |-> <<"*", entry.size>>, contentLength |-> 0, body |-> <<>>]

Resp206(entry, start, end, buffers) ==
  [status |-> 206, contentRange |-> <<start, end, entry.size>>,
   contentLength |-> end - start + 1, body |-> Concat(buffers)]

Resp200(len, body) ==
  [status |-> 200, contentRange |-> <<>>, contentLength |-> len, body |-> body]

NoResp == [status |-> 0, contentRange |-> <<>>, contentLength |-> 0, body |-> <<>>]

\* The ways a part's bytes are obtained, with the buffer each way yields.
\*   worker, whole shard: fetchShard            "cache" | "net"
\*   worker, slice:       fetchShardSlice       "cache" | "r206" | "r200" | "fallback"
\*   resolver:            _fetchShardBuf        "cache" | "net", then subarray
PartWays(impl, p) ==
  IF impl = "sw" /\ ~WholePart(p) THEN {"cache", "r206", "r200", "fallback"}
  ELSE {"cache", "net"}

\* (mutant) the slice ends one byte early
PartBufferShort(impl, p, way) ==
  IF WholePart(p) THEN ShardBytes(p.shard)
  ELSE IF impl = "sw" /\ way = "r206" THEN CdnRange(p.shard, p.subStart, p.subEnd)
  ELSE Slice(ShardBytes(p.shard), p.subStart, p.subEnd)

PartBuffer(impl, p, way) ==
  IF WholePart(p) THEN ShardBytes(p.shard)
  ELSE IF impl = "sw" /\ way = "r206" THEN CdnRange(p.shard, p.subStart, p.subEnd)
  ELSE Slice(ShardBytes(p.shard), p.subStart, p.subEnd + 1)

\* Network fetches a way issues: the fallback follows a failed range fetch.
WayFetches(way) == CASE way = "cache" -> 0 [] way = "fallback" -> 2 [] OTHER -> 1

RangeRequests(entry) ==
  {[range |-> TRUE, start |-> s, end |-> e] :
     s \in 0..(entry.size + 1), e \in -1..(entry.size + 1)}
  \cup {[range |-> FALSE, start |-> 0, end |-> -1]}

RangeInit ==
  /\ rImpl \in {"sw", "node"}
  /\ rEntry \in ShardedEntries \cup UnshardedEntries
  /\ rReq \in RangeRequests(rEntry)
  /\ rPc = "start"
  /\ rParts = <<>>
  /\ rBuffers = <<>>
  /\ rWays = {}
  /\ rNet = 0
  /\ rResp = NoResp
  /\ rStream = "none"

RangeIdle ==
  /\ rImpl = "sw"
  /\ rEntry = MkUnsharded(1)
  /\ rReq = [range |-> FALSE, start |-> 0, end |-> -1]
  /\ rPc = "idle"
  /\ rParts = <<>>
  /\ rBuffers = <<>>
  /\ rWays = {}
  /\ rNet = 0
  /\ rResp = NoResp
  /\ rStream = "none"

\* handleModelFetch / _handleFetch up to the first await of the entry's bytes.
\* The worker's respondFull returns its Response at once, the body a stream
\* that start(controller) fills; the resolver's _respondFull awaits all shards.
HandleFetch ==
  /\ rPc = "start"
  /\ IF ~rEntry.sharded
       THEN \* the unsharded branch comes before the Range header is read
            /\ rPc' = "unsharded"
            /\ UNCHANGED <<rParts, rResp, rStream>>
     ELSE IF ~rReq.range
       THEN /\ rParts' = FullParts(rEntry)
            /\ IF rImpl = "sw"
                 THEN /\ rPc' = "done"
                      /\ rResp' = Resp200(rEntry.size, <<>>)
                      /\ rStream' = "open"
                 ELSE /\ rPc' = "fetch"
                      /\ UNCHANGED <<rResp, rStream>>
     ELSE LET end == ClampEnd(rEntry, ParseEnd(rEntry, rReq.end))
              parts == RangeParts(rEntry, rReq.start, end)
          IN IF Unsatisfiable(rEntry, rReq.start, end) \/ parts = <<>>
               THEN /\ rPc' = "done"
                    /\ rResp' = Resp416(rEntry)
                    /\ UNCHANGED <<rParts, rStream>>
               ELSE /\ rPc' = "fetch"
                    /\ rParts' = parts
                    /\ UNCHANGED <<rResp, rStream>>
  /\ UNCHANGED <<rImpl, rEntry, rReq, rBuffers, rWays, rNet>>
  /\ UNCHANGED notRange

\* The unsharded object arrives: 200 with the whole object, Range or not.
UnshardedDone ==
  /\ rPc = "unsharded"
  /\ \E way \in {"cache", "net"} :
       LET body == ShardBytes(rEntry.shards[1])
       IN /\ rResp' = Resp200(Len(body), body)
          /\ rWays' = rWays \cup {way}
          /\ rNet' = rNet + WayFetches(way)
  /\ rPc' = "done"
  /\ UNCHANGED <<rImpl, rEntry, rReq, rParts, rBuffers, rStream>>
  /\ UNCHANGED notRange

\* One part's bytes arrive; after the last one the Response is built.
FetchPart ==
  /\ rPc = "fetch"
  /\ rParts # <<>>
  /\ \E way \in PartWays(rImpl, Head(rParts)) :
       LET buffers == Append(rBuffers, PartBuffer(rImpl, Head(rParts), way))
           end == ClampEnd(rEntry, ParseEnd(rEntry, rReq.end))
       IN /\ rBuffers' = buffers
          /\ rWays' = rWays \cup {IF WholePart(Head(rParts)) THEN "whole" ELSE way}
          /\ rNet' = rNet + WayFetches(way)
          /\ rParts' = Tail(rParts)
          /\ IF Tail(rParts) # <<>>
               THEN UNCHANGED <<rPc, rResp>>
               ELSE /\ rPc' = "done"
                    /\ rResp' = IF rReq.range
                                  THEN Resp206(rEntry, rReq.start, end, buffers)
                                  ELSE Resp200(rEntry.size, Concat(buffers))
  /\ UNCHANGED <<rImpl, rEntry, rReq, rStream>>
  /\ UNCHANGED notRange

\* respondFull's start(controller): the next shard's fetchShard resolves and
\* its bytes are enqueued; after the last shard controller.close().
StreamShard ==
  /\ rStream = "open"
  /\ rParts # <<>>
  /\ \E way \in PartWays(rImpl, Head(rParts)) :
       LET buffers == Append(rBuffers, PartBuffer(rImpl, Head(rParts), way))
       IN /\ rBuffers' = buffers
          /\ rWays' = rWays \cup {way}
          /\ rNet' = rNet + WayFetches(way)
          /\ rResp' = [rResp EXCEPT !.body = Concat(buffers)]
  /\ rParts' = Tail(rParts)
  /\ rStream' = IF Tail(rParts) = <<>> THEN "closed" ELSE "open"
  /\ UNCHANGED <<rImpl, rEntry, rReq, rPc>>
  /\ UNCHANGED notRange

\* respondFull's start(controller): a fetchShard rejects, controller.error(err)
StreamFail ==
  /\ rStream = "open"
  /\ rStream' = "errored"
  /\ rNet' = rNet + 1
  /\ UNCHANGED <<rImpl, rEntry, rReq, rPc, rParts, rBuffers, rWays, rResp>>
  /\ UNCHANGED notRange

\* A shard (or the unsharded object) cannot be fetched while the handler
\* awaits it: the handler's promise rejects (the worker) or the call throws
\* (the resolver).
FetchFail ==
  /\ rPc \in {"fetch", "unsharded"}
  /\ rPc' = "error"
  /\ rNet' = rNet + 1
  /\ UNCHANGED <<rImpl, rEntry, rReq, rParts, rBuffers, rWays, rResp, rStream>>
  /\ UNCHANGED notRange

RangeNext ==
  \/ HandleFetch
  \/ UnshardedDone
  \/ FetchPart
  \/ StreamShard
  \/ StreamFail
  \/ FetchFail

\* ------------------------------------------------------ claims: range reads
ReqEnd == ParseEnd(rEntry, rReq.end)

\* C7: for a sharded entry with contiguous shards and 0 <= a <= b < size, the
\* body of the range response for a-b is bytes a..b of the full-read body,
\* however each covered shard was obtained.
C7_RangeIsSliceOfFull ==
  (rPc = "done" /\ rEntry.sharded /\ rReq.range
     /\ rReq.start <= ReqEnd /\ ReqEnd < rEntry.size)
  => rResp.body = SubSeq(FullBody(rEntry), rReq.start + 1, ReqEnd + 1)

\* C7 witness: a range over three shards whose first shard was sliced by a
\* shard-level range request, the middle one served whole, the last one
\* sliced from the cache.
C7_Witness ==
  /\ rPc = "done" /\ rImpl = "sw" /\ rEntry.sharded /\ rReq.range
  /\ Len(rEntry.shards) = 3
  /\ rReq.start > 0 /\ rReq.end # -1 /\ rReq.end < rEntry.size - 1
  /\ rResp.status = 206
  /\ Len(rBuffers) = 3
  /\ {"whole", "r206", "cache"} \subseteq rWays

\* C8: a satisfiable range request (start < size, start <= end) on a sharded
\* entry gets 206, Content-Range start-min(end, size-1)/size, and a
\* Content-Length of min(end, size-1)-start+1, the number of body bytes.
C8_Range206Headers ==
  (rPc = "done" /\ rEntry.sharded /\ rReq.range
     /\ rReq.start < rEntry.size /\ rReq.start <= ReqEnd)
  => LET e == Min(ReqEnd, rEntry.size - 1)
     IN /\ rResp.status = 206
        /\ rResp.contentRange = <<rReq.start, e, rEntry.size>>
        /\ rResp.contentLength = e - rReq.start + 1
        /\ Len(rResp.body) = rResp.contentLength

\* C8 witness: a range whose end lies beyond the file, answered.
C8_Witness ==
  /\ rPc = "done" /\ rEntry.sharded /\ rReq.range
  /\ rReq.start > 0 /\ rReq.start < rEntry.size
  /\ rReq.end > rEntry.size - 1
  /\ Len(rEntry.shards) > 1
  /\ rResp.status = 206

\* C9: a range request on a sharded entry with start >= size or start > end
\* gets 416, Content-Range bytes */size, an empty body, and fetches no shard.
C9_Range416 ==
  (rPc # "start" /\ rEntry.sharded /\ rReq.range
     /\ (rReq.start >= rEntry.size \/ rReq.start > ReqEnd))
  => /\ rPc = "done"
     /\ rResp.status = 416
     /\ rResp.contentRange = <<"*", rEntry.size>>
     /\ rResp.body = <<>>
     /\ rNet = 0
     /\ rBuffers = <<>>

\* C9 witness: an inverted range inside the file, answered.
C9_Witness ==
  /\ rPc = "done" /\ rEntry.sharded /\ rReq.range
  /\ rReq.end # -1 /\ rReq.start > rReq.end /\ rReq.start < rEntry.size
  /\ rResp.status = 416

\* C10: a valid range a-b on an unsharded entry gets 206 with exactly b-a+1
\* bytes and Content-Range a-b/size, like a one-shard sharded entry.
C10_UnshardedRange206 ==
  (rPc = "done" /\ ~rEntry.sharded /\ rReq.range
     /\ rReq.end # -1 /\ rReq.start <= rReq.end /\ rReq.end < rEntry.size)
  => /\ rResp.status = 206
     /\ Len(rResp.body) = rReq.end - rReq.start + 1
     /\ rResp.contentRange = <<rReq.start, rReq.end, rEntry.size>>

\* the bodies of the first k listed shards, in listed order
ShardPrefix(entry, k) == Concat([i \in 1..k |-> ShardBytes(entry.shards[i])])

\* C11: a full response for a sharded entry has status 200 and a
\* Content-Length of the entry's size; what its body has delivered is always
\* the bodies of the first k listed shards, each whole and in listed order,
\* and all of them once the body is complete.
C11_FullInListedOrder ==
  (rPc = "done" /\ rEntry.sharded /\ ~rReq.range)
  => /\ rResp.status = 200
     /\ rResp.contentLength = rEntry.size
     /\ \E k \in 0..Len(rEntry.shards) : rResp.body = ShardPrefix(rEntry, k)
     /\ rStream \in {"none", "closed"} => rResp.body = FullBody(rEntry)

\* C11 witness: the worker's stream of a three-shard entry, closed, with a
\* shard from the cache and a shard from the network.
C11_Witness ==
  /\ rPc = "done" /\ rImpl = "sw" /\ rEntry.sharded /\ ~rReq.range
  /\ Len(rEntry.shards) = 3
  /\ rStream = "closed"
  /\ {"cache", "net"} \subseteq rWays
  /\ Len(rResp.body) = rEntry.size

\* C19: the worker's handler for a matched request never rejects: on every
\* path, a failed shard or CDN fetch included, it resolves to a Response.
C19_HandlerNeverRejects == rImpl = "sw" => rPc # "error"

\* ------------------------------------------ worker: shard fetch de-duplication
\* fetchShard:      "start" -match-> "matched" -> "joined" | "fetching" -> "putting" -> "done"
\* fetchShardSlice: "sliceStart" -match-> "sliceMatched" -> "rangeFetching"
\*                    -> "done" (206) | "slicePut" (200) | "start" (fallback to fetchShard)
Bytes(u) == <<"bytes", u>>
Failure == <<"error">>

FirstPc(kind) == IF kind = "full" THEN "start" ELSE "sliceStart"

ShardInit ==
  /\ sKind \in [Callers -> {"full", "slice"}]
  /\ sUrl \in [Callers -> Urls]
  /\ sCache0 \in SUBSET Urls
  /\ sCache = sCache0
  /\ sPc = [c \in Callers |-> FirstPc(sKind[c])]
  /\ sResult = [c \in Callers |-> <<>>]
  /\ sInflight = [u \in Urls |-> 0]
  /\ sNetActive = [u \in Urls |-> 0]
  /\ sNetGets = [u \in Urls |-> 0]

ShardIdle ==
  /\ sKind = [c \in Callers |-> "full"]
  /\ sUrl = [c \in Callers |-> "x"]
  /\ sCache0 = {}
  /\ sCache = {}
  /\ sPc = [c \in Callers |-> "idle"]
  /\ sResult = [c \in Callers |-> <<>>]
  /\ sInflight = [u \in Urls |-> 0]
  /\ sNetActive = [u \in Urls |-> 0]
  /\ sNetGets = [u \in Urls |-> 0]

\* `await c.match(url)` reads Cache Storage (both functions, step 1). A hit
\* returns the cached bytes; a miss, or a throwing cache, leaves the
\* continuation to run later.
CacheMatch(c) ==
  /\ sPc[c] \in {"start", "sliceStart"}
  /\ \E cacheWorks \in BOOLEAN :
       IF cacheWorks /\ sUrl[c] \in sCache
         THEN /\ sPc' = [sPc EXCEPT ![c] = "done"]
              /\ sResult' = [sResult EXCEPT ![c] = Bytes(sUrl[c])]
         ELSE /\ sPc' = [sPc EXCEPT ![c] = IF sPc[c] = "start" THEN "matched" ELSE "sliceMatched"]
              /\ UNCHANGED sResult
  /\ UNCHANGED <<sKind, sUrl, sCache, sCache0, sInflight, sNetActive, sNetGets>>
  /\ UNCHANGED notShard

\* fetchShard after the miss, step 2: join the promise in shardInflight.
JoinInflight(c) ==
  /\ sPc[c] = "matched"
  /\ sInflight[sUrl[c]] # 0
  /\ sPc' = [sPc EXCEPT ![c] = "joined"]
  /\ UNCHANGED <<sKind, sUrl, sResult, sCache, sCache0, sInflight, sNetActive, sNetGets>>
  /\ UNCHANGED notShard

\* fetchShard after the miss, step 3: start the fetch and store its promise.
StartFetch(c) ==
  /\ sPc[c] = "matched"
  /\ sInflight[sUrl[c]] = 0
  /\ sPc' = [sPc EXCEPT ![c] = "fetching"]
  /\ sInflight' = [sInflight EXCEPT ![sUrl[c]] = c]
  /\ sNetActive' = [sNetActive EXCEPT ![sUrl[c]] = @ + 1]
  /\ sNetGets' = [sNetGets EXCEPT ![sUrl[c]] = @ + 1]
  /\ UNCHANGED <<sKind, sUrl, sResult, sCache, sCache0>>
  /\ UNCHANGED notShard

\* (mutant) the map entry is removed on success only
SettleKeepFailed(c, res) ==
  /\ sInflight' = [sInflight EXCEPT ![sUrl[c]] = IF res = Failure THEN @ ELSE 0]
  /\ sPc' = [d \in Callers |->
              IF d = c \/ (sPc[d] = "joined" /\ sUrl[d] = sUrl[c])
                THEN (IF res = Failure THEN "failed" ELSE "done")
                ELSE sPc[d]]
  /\ sResult' = [d \in Callers |->
                  IF d = c \/ (sPc[d] = "joined" /\ sUrl[d] = sUrl[c]) THEN res ELSE sResult[d]]

\* The promise of caller c's fetch settles with `res`: c's finally block
\* deletes the map entry, then the joined callers resume with the same result.
Settle(c, res) ==
  /\ sInflight' = [sInflight EXCEPT ![sUrl[c]] = 0]
  /\ sPc' = [d \in Callers |->
              IF d = c \/ (sPc[d] = "joined" /\ sUrl[d] = sUrl[c])
                THEN (IF res = Failure THEN "failed" ELSE "done")
                ELSE sPc[d]]
  /\ sResult' = [d \in Callers |->
                  IF d = c \/ (sPc[d] = "joined" /\ sUrl[d] = sUrl[c]) THEN res ELSE sResult[d]]

\* The network answers fetchShard's GET: a body, or !r.ok / a network error.
FetchResponse(c) ==
  /\ sPc[c] = "fetching"
  /\ sNetActive' = [sNetActive EXCEPT ![sUrl[c]] = @ - 1]
  /\ \E ok \in BOOLEAN :
       IF ok THEN /\ sPc' = [sPc EXCEPT ![c] = "putting"]
                  /\ UNCHANGED <<sResult, sInflight>>
             ELSE Settle(c, Failure)
  /\ UNCHANGED <<sKind, sUrl, sCache, sCache0, sNetGets>>
  /\ UNCHANGED notShard

\* `await c.put(url, ...)` ends (a failing put is swallowed); the promise resolves.
CachePut(c) ==
  /\ sPc[c] = "putting"
  /\ \E stored \in BOOLEAN :
       sCache' = IF stored THEN sCache \cup {sUrl[c]} ELSE sCache
  /\ Settle(c, Bytes(sUrl[c]))
  /\ UNCHANGED <<sKind, sUrl, sCache0, sNetActive, sNetGets>>
  /\ UNCHANGED notShard

\* fetchShardSlice after the miss: a GET with a Range header, shardInflight unread.
SliceRangeFetch(c) ==
  /\ sPc[c] = "sliceMatched"
  /\ sPc' = [sPc EXCEPT ![c] = "rangeFetching"]
  /\ sNetActive' = [sNetActive EXCEPT ![sUrl[c]] = @ + 1]
  /\ sNetGets' = [sNetGets EXCEPT ![sUrl[c]] = @ + 1]
  /\ UNCHANGED <<sKind, sUrl, sResult, sCache, sCache0, sInflight>>
  /\ UNCHANGED notShard

\* The network answers the ranged GET: 206 (the slice), 200 (the whole shard,
\* to be cached), or anything else (fall back to fetchShard).
SliceResponse(c) ==
  /\ sPc[c] = "rangeFetching"
  /\ sNetActive' = [sNetActive EXCEPT ![sUrl[c]] = @ - 1]
  /\ \E r \in {206, 200, 0} :
       CASE r = 206 -> /\ sPc' = [sPc EXCEPT ![c] = "done"]
                       /\ sResult' = [sResult EXCEPT ![c] = Bytes(sUrl[c])]
         [] r = 200 -> /\ sPc' = [sPc EXCEPT ![c] = "slicePut"]
                       /\ UNCHANGED sResult
         [] OTHER   -> /\ sPc' = [sPc EXCEPT ![c] = "start"]
                       /\ UNCHANGED sResult
  /\ UNCHANGED <<sKind, sUrl, sCache, sCache0, sInflight, sNetGets>>
  /\ UNCHANGED notShard

\* fetchShardSlice caches the whole shard a 200 brought, and returns the slice.
SlicePut(c) ==
  /\ sPc[c] = "slicePut"
  /\ \E stored \in BOOLEAN :
       sCache' = IF stored THEN sCache \cup {sUrl[c]} ELSE sCache
  /\ sPc' = [sPc EXCEPT ![c] = "done"]
  /\ sResult' = [sResult EXCEPT ![c] = Bytes(sUrl[c])]
  /\ UNCHANGED <<sKind, sUrl, sCache0, sInflight, sNetActive, sNetGets>>
  /\ UNCHANGED notShard

ShardNext ==
  \E c \in Callers :
    \/ CacheMatch(c)
    \/ JoinInflight(c)
    \/ StartFetch(c)
    \/ FetchResponse(c)
    \/ CachePut(c)
    \/ SliceRangeFetch(c)
    \/ SliceResponse(c)
    \/ SlicePut(c)

\* --------------------------------------------- claims: worker shard fetches
\* C4: for every shard URL, at every instant, at most one network fetch of
\* that URL is in progress, over all interleavings of fetchShard and
\* fetchShardSlice calls.
C4_OneFetchPerUrl == \A u \in Urls : sNetActive[u] <= 1

\* C5: two fetchShard calls that start together and need the same uncached
\* shard cause exactly one network GET of it, and both receive the same bytes
\* (stated for the runs in which the first fetch's cache write succeeded).
C5_ExactlyOneGet ==
  \A u \in Urls :
    (/\ u \notin sCache0
     /\ u \in sCache
     /\ \A c \in Callers : sKind[c] = "full" /\ sUrl[c] = u /\ sPc[c] = "done")
    => /\ sNetGets[u] = 1
       /\ \A c, d \in Callers : sResult[c] = sResult[d]

\* ------------------------------------- in-process resolver: _fetchShardBuf
NodeInit ==
  /\ nUrl \in [Callers -> Urls]
  /\ nDisk0 \in SUBSET Urls
  /\ nDisk = nDisk0
  /\ nPc = [c \in Callers |-> "start"]
  /\ nAttempt = [c \in Callers |-> 0]
  /\ nResult = [c \in Callers |-> <<>>]
  /\ nNetActive = [u \in Urls |-> 0]
  /\ nNetGets = [u \in Urls |-> 0]
  /\ nNetFailed = [u \in Urls |-> 0]
  /\ nWriteFailed = [c \in Callers |-> 0]
  /\ nTries = [c \in Callers |-> 0]

NodeIdle ==
  /\ nUrl = [c \in Callers |-> "x"]
  /\ nDisk0 = {}
  /\ nDisk = {}
  /\ nPc = [c \in Callers |-> "idle"]
  /\ nAttempt = [c \in Callers |-> 0]
  /\ nResult = [c \in Callers |-> <<>>]
  /\ nNetActive = [u \in Urls |-> 0]
  /\ nNetGets = [u \in Urls |-> 0]
  /\ nNetFailed = [u \in Urls |-> 0]
  /\ nWriteFailed = [c \in Callers |-> 0]
  /\ nTries = [c \in Callers |-> 0]

\* The call: fs.existsSync(cp) decides at once; on a miss the loop's first
\* fetch is issued (i = 0) when the loop runs at all.
NodeCall(c) ==
  /\ nPc[c] = "start"
  /\ IF nUrl[c] \in nDisk
       THEN /\ nPc' = [nPc EXCEPT ![c] = "done"]
            /\ nResult' = [nResult EXCEPT ![c] = Bytes(nUrl[c])]
            /\ UNCHANGED <<nNetActive, nNetGets, nTries>>
     ELSE IF 0 < Retries
       THEN /\ nPc' = [nPc EXCEPT ![c] = "fetching"]
            /\ nNetActive' = [nNetActive EXCEPT ![nUrl[c]] = @ + 1]
            /\ nNetGets' = [nNetGets EXCEPT ![nUrl[c]] = @ + 1]
            /\ nTries' = [nTries EXCEPT ![c] = @ + 1]
            /\ UNCHANGED nResult
     ELSE   /\ nPc' = [nPc EXCEPT ![c] = "failed"]
            /\ nResult' = [nResult EXCEPT ![c] = Failure]
            /\ UNCHANGED <<nNetActive, nNetGets, nTries>>
  /\ UNCHANGED <<nUrl, nAttempt, nDisk, nDisk0, nNetFailed, nWriteFailed>>
  /\ UNCHANGED notNode

\* The attempt ends. "ok": body received and written to the cache directory.
\* "neterr": the fetch rejected or answered !r.ok.  "writeerr": the body was
\* received and mkdirSync or writeFileSync threw.  Both errors are thrown
\* inside the try block, so the catch block runs: sleep when i < retries - 1,
\* else leave the loop and throw.
NodeResponse(c) ==
  /\ nPc[c] = "fetching"
  /\ nNetActive' = [nNetActive EXCEPT ![nUrl[c]] = @ - 1]
  /\ \E outcome \in {"ok", "neterr", "writeerr"} :
       IF outcome = "ok"
         THEN /\ nDisk' = nDisk \cup {nUrl[c]}
              /\ nPc' = [nPc EXCEPT ![c] = "done"]
              /\ nResult' = [nResult EXCEPT ![c] = Bytes(nUrl[c])]
              /\ UNCHANGED <<nNetFailed, nWriteFailed>>
         ELSE /\ nNetFailed' = [nNetFailed EXCEPT ![nUrl[c]] = @ + 1]
              /\ nWriteFailed' = [nWriteFailed EXCEPT ![c] = IF outcome = "writeerr" THEN @ + 1 ELSE @]
              /\ UNCHANGED nDisk
              /\ IF nAttempt[c] < Retries - 1
                   THEN /\ nPc' = [nPc EXCEPT ![c] = "backoff"]
                        /\ UNCHANGED nResult
                   ELSE /\ nPc' = [nPc EXCEPT ![c] = "failed"]
                        /\ nResult' = [nResult EXCEPT ![c] = Failure]
  /\ UNCHANGED <<nUrl, nAttempt, nDisk0, nNetGets, nTries>>
  /\ UNCHANGED notNode

\* The back-off timer fires: i++ and the next attempt is issued.
NodeRetry(c) ==
  /\ nPc[c] = "backoff"
  /\ nAttempt' = [nAttempt EXCEPT ![c] = @ + 1]
  /\ nPc' = [nPc EXCEPT ![c] = "fetching"]
  /\ nNetActive' = [nNetActive EXCEPT ![nUrl[c]] = @ + 1]
  /\ nNetGets' = [nNetGets EXCEPT ![nUrl[c]] = @ + 1]
  /\ nTries' = [nTries EXCEPT ![c] = @ + 1]
  /\ UNCHANGED <<nUrl, nResult, nDisk, nDisk0, nNetFailed, nWriteFailed>>
  /\ UNCHANGED notNode

NodeNext == \E c \in Callers : NodeCall(c) \/ NodeResponse(c) \/ NodeRetry(c)

\* C18: once a shard fetch task has settled, with bytes or with a failure,
\* its URL is not in the in-flight map (so the next caller starts a new
\* fetch); no caller stays joined to a settled task, the callers of a failed
\* task hold the failure, and a failed task writes nothing to the cache.
C18_SettledLeavesMap ==
  /\ \A u \in Urls :
       sInflight[u] # 0 =>
         sUrl[sInflight[u]] = u /\ sPc[sInflight[u]] \in {"fetching", "putting"}
  /\ \A c \in Callers :
       /\ sPc[c] = "joined" => sInflight[sUrl[c]] # 0
       /\ sPc[c] = "failed" => sResult[c] = Failure
  /\ \A u \in Urls :
       (\A c \in Callers : sUrl[c] = u => sPc[c] = "failed")
         => (u \in sCache <=> u \in sCache0)

\* C18 witness: a fetch failed with a second caller joined to it; both hold
\* the failure, one GET was made, and the map is empty again.
C18_Witness ==
  \E u \in Urls :
    /\ \A c \in Callers : sKind[c] = "full" /\ sUrl[c] = u /\ sPc[c] = "failed"
    /\ sNetGets[u] = 1
    /\ sInflight[u] = 0
    /\ u \notin sCache

\* -------------------------------------- claims: in-process shard fetches
\* C6: two concurrent intercepted reads that need the same uncached remote
\* shard result in a single network fetch of that shard URL.
C6_NodeSingleFetch ==
  \A u \in Urls :
    (/\ u \notin nDisk0
     /\ nNetFailed[u] = 0
     /\ \A c \in Callers : nUrl[c] = u /\ nPc[c] = "done")
    => nNetGets[u] = 1

\* C25 (in-process resolver): when the fetch of a shard succeeded and the
\* write to the cache directory failed, the caller has the fetched bytes and
\* the call made no further attempt.
C25_CacheWriteNonFatal ==
  \A c \in Callers :
    nWriteFailed[c] > 0
      => /\ nPc[c] = "done"
         /\ nResult[c] = Bytes(nUrl[c])
         /\ nWriteFailed[c] = 1

\* the attempts of caller c's call whose fetch delivered the shard
FetchedOk(c) == nWriteFailed[c] + (IF nPc[c] = "done" /\ nTries[c] > 0 THEN 1 ELSE 0)

\* C35: one remote shard read of the in-process resolver makes at most
\* `retries` network attempts, makes none after an attempt that delivered the
\* shard, returns the shard's bytes then, writes the cache only after such an
\* attempt, and fails, with the last error, only after `retries` attempts
\* that all failed; a shard found in the cache is returned with no attempt.
C35_BoundedRetries ==
  /\ \A c \in Callers :
       /\ nTries[c] <= Retries
       /\ FetchedOk(c) <= 1
       /\ FetchedOk(c) = 1 => nPc[c] = "done" /\ nResult[c] = Bytes(nUrl[c])
       /\ nPc[c] = "failed"
            => nTries[c] = Retries /\ FetchedOk(c) = 0 /\ nResult[c] = Failure
       /\ (nPc[c] # "start" /\ nUrl[c] \in nDisk0)
            => nPc[c] = "done" /\ nTries[c] = 0 /\ nResult[c] = Bytes(nUrl[c])
  /\ \A u \in nDisk \ nDisk0 : \E c \in Callers : nUrl[c] = u /\ FetchedOk(c) >= 1

\* ------------------------------------------- worker: progress state machine
\* The filemap of the modelled source: "s" is shared by every manifest, "a"
\* and "b" are the variants' own files, "x" is listed by no manifest.
Files == {"s", "a", "b", "x"}

\* per file: the byte counts a full read reports, one per recordProgress call
\* (the entry size when unsharded, the shard sizes when sharded); "b" is the
\* sharded file
FileChunks(vp) ==
  CASE vp = "s" -> <<1>>
    [] vp = "a" -> <<1>>
    [] vp = "b" -> <<1, 1>>
    [] vp = "x" -> <<2>>

IsSharded(vp) == vp = "b"

FileSize(vp) == SumSeq(FileChunks(vp))

RECURSIVE SumSizes(_)
SumSizes(S) ==
  IF S = {} THEN 0 ELSE LET vp == CHOOSE v \in S : TRUE IN FileSize(vp) + SumSizes(S \ {vp})

MkManifest(vps) == [files |-> vps, size |-> SumSizes(vps)]

FmManifests ==
  [files |-> Files,
   names |-> <<"A", "B">>,
   manifests |-> [n \in {"A", "B"} |-> IF n = "A" THEN MkManifest({"s", "a"})
                                                  ELSE MkManifest({"s", "b"})]]

FmPlain == [files |-> Files, names |-> <<>>, manifests |-> [n \in {} |-> MkManifest({})]]

\* the manifest option of a registration: omitted, a manifest of FmManifests,
\* one that no filemap has
ManifestOptions == {"", "A", "Z"}

NoMsg == [percent |-> -1, done |-> FALSE, modelLoaded |-> 0, modelTotal |-> 0,
          mode |-> "", manifest |-> ""]

makeProgressState(manifestName) ==
  [mode |-> IF manifestName # "" THEN "explicit" ELSE "adaptive",
   totalBytes |-> 0, loadedBytes |-> 0,
   files |-> [vp \in {} |-> [size |-> 0, loaded |-> 0]],
   activeFiles |-> {},
   candidates |-> <<>>,
   selectedManifest |-> manifestName,
   pendingFetches |-> 0,
   idleTimer |-> FALSE,
   finalized |-> FALSE,
   broadcastTimer |-> FALSE]

RECURSIVE SumLoaded(_)
SumLoaded(files) ==
  IF DOMAIN files = {} THEN 0
  ELSE LET vp == CHOOSE v \in DOMAIN files : TRUE
       IN files[vp].loaded + SumLoaded([w \in DOMAIN files \ {vp} |-> files[w]])

RECURSIVE SumTracked(_)
SumTracked(files) ==
  IF DOMAIN files = {} THEN 0
  ELSE LET vp == CHOOSE v \in DOMAIN files : TRUE
       IN files[vp].size + SumTracked([w \in DOMAIN files \ {vp} |-> files[w]])

setFilesFromList(st, fm, vpList) ==
  LET present == vpList \cap fm.files
  IN [st EXCEPT !.totalBytes = SumSizes(present),
                !.files = [vp \in present |-> [size |-> FileSize(vp), loaded |-> 0]]]

\* names.reduce((a, b) => manifests[a].size >= manifests[b].size ? a : b)
RECURSIVE ReduceLargest(_, _, _)
ReduceLargest(fm, acc, rest) ==
  IF rest = <<>> THEN acc
  ELSE ReduceLargest(fm,
         IF fm.manifests[acc].size >= fm.manifests[Head(rest)].size THEN acc ELSE Head(rest),
         Tail(rest))

Largest(fm, names) == ReduceLargest(fm, Head(names), Tail(names))

initProgressFromFilemap(st, fm) ==
  IF st.mode = "explicit"
    THEN IF st.selectedManifest \in DOMAIN fm.manifests
           THEN setFilesFromList(st, fm, fm.manifests[st.selectedManifest].files)
           ELSE setFilesFromList(st, fm, fm.files)
  ELSE IF Len(fm.names) > 0
    THEN LET largest == Largest(fm, fm.names)
         IN setFilesFromList(
              [st EXCEPT !.mode = "adaptive", !.candidates = fm.names,
                         !.selectedManifest = largest],
              fm, fm.manifests[largest].files)
  ELSE setFilesFromList([st EXCEPT !.mode = "fallback"], fm, fm.files)

\* narrowManifest; `loaded` tells whether filemaps.get(cdnBase) is there
narrowManifest(st, fm, loaded, relPath) ==
  IF st.mode # "adaptive" \/ st.finalized THEN st
  ELSE IF ~loaded \/ Len(fm.names) = 0 THEN st
  ELSE LET Keeps(n) == relPath \in fm.manifests[n].files
           remaining == SelectSeq(st.candidates, Keeps)
       IN IF Len(remaining) = 0 \/ Len(remaining) = Len(st.candidates) THEN st
          ELSE LET largest == Largest(fm, remaining)
                   st1 == [st EXCEPT !.candidates = remaining]
               IN IF largest = st.selectedManifest THEN st1
                  ELSE LET saved == st.files
                           st2 == setFilesFromList(
                                    [st1 EXCEPT !.selectedManifest = largest],
                                    fm, fm.manifests[largest].files)
                           restored ==
                             [vp \in DOMAIN st2.files |->
                               IF vp \in DOMAIN saved
                                 THEN [st2.files[vp] EXCEPT
                                        !.loaded = Min(saved[vp].loaded, st2.files[vp].size)]
                                 ELSE st2.files[vp]]
                       IN [st2 EXCEPT !.files = restored,
                                      !.loadedBytes = SumLoaded(restored)]

\* (mutant) the armed idle timer is left running
onFetchStartKeepTimer(st) ==
  [st EXCEPT !.pendingFetches = @ + 1]

onFetchStart(st) ==
  [st EXCEPT !.pendingFetches = @ + 1, !.idleTimer = FALSE]

\* (mutant) the counter is left as it is
onFetchEndKeep(st) ==
  IF st.pendingFetches = 0 /\ ~st.finalized /\ st.mode # "explicit"
    THEN [st EXCEPT !.idleTimer = TRUE]
    ELSE st

onFetchEnd(st) ==
  LET st1 == [st EXCEPT !.pendingFetches = Max(0, @ - 1)]
  IN IF st1.pendingFetches = 0 /\ ~st1.finalized /\ st1.mode # "explicit"
       THEN [st1 EXCEPT !.idleTimer = TRUE]
       ELSE st1

\* finalizeProgress past its `if (st.finalized) return`, before doBroadcast
finalizeProgress(st) ==
  LET counted == st.activeFiles \cap DOMAIN st.files
      actualTotal == SumTracked([vp \in counted |-> st.files[vp]])
      total == IF actualTotal # 0 THEN actualTotal ELSE st.loadedBytes
  IN [st EXCEPT !.finalized = TRUE, !.idleTimer = FALSE, !.broadcastTimer = FALSE,
                !.files = [vp \in DOMAIN st.files |->
                            IF vp \in counted
                              THEN [st.files[vp] EXCEPT !.loaded = st.files[vp].size]
                              ELSE st.files[vp]],
                !.totalBytes = total,
                !.loadedBytes = total]

trackFile(st, relPath, fileSize) ==
  LET st1 == [st EXCEPT !.activeFiles = @ \cup {relPath}]
  IN IF relPath \in DOMAIN st.files THEN st1
     ELSE [st1 EXCEPT
            !.files = [vp \in DOMAIN st.files \cup {relPath} |->
                        IF vp = relPath THEN [size |-> fileSize, loaded |-> 0]
                        ELSE st.files[vp]],
            !.totalBytes = @ + fileSize]

recordProgress(st, relPath, bytes) ==
  IF relPath \notin DOMAIN st.files THEN st
  ELSE LET f == st.files[relPath]
           now == Min(f.loaded + bytes, f.size)
           delta == now - f.loaded
       IN IF delta > 0
            THEN [st EXCEPT !.files[relPath].loaded = now,
                            !.loadedBytes = @ + delta]
            ELSE st

IsDone(st) == st.finalized \/ (st.loadedBytes >= st.totalBytes /\ st.totalBytes > 0)

\* Math.round(n / d * 100) for n >= 0, d > 0: halves round up
RoundPercent(n, d) == (200 * n + d) \div (2 * d)

Percent(st) ==
  IF st.totalBytes > 0 THEN Min(100, RoundPercent(st.loadedBytes, st.totalBytes)) ELSE 0

\* the MODEL_SW_PROGRESS message doBroadcast posts
ProgressMsg(st) ==
  [percent |-> Percent(st), done |-> IsDone(st),
   modelLoaded |-> st.loadedBytes, modelTotal |-> st.totalBytes,
   mode |-> st.mode, manifest |-> st.selectedManifest]

\* doBroadcast(st): the page sees one more message
doBroadcast(st) == evLast' = ProgressMsg(st)

NoBroadcast == UNCHANGED evLast

\* if (st.broadcastTimer != null) clearTimeout(st.broadcastTimer): the
\* timeouts left of n
ClearBroadcast(st, n) == IF st.broadcastTimer THEN n - 1 ELSE n

\* else if (st.broadcastTimer == null) st.broadcastTimer = setTimeout(...)
ArmBroadcast(st, n) == IF st.broadcastTimer THEN n ELSE n + 1

ProgInit ==
  /\ cdnFm \in {FmManifests, FmPlain}
  /\ srcMan \in ManifestOptions
  /\ fmLoaded = FALSE
  /\ fmFetches = 1
  /\ pst = makeProgressState(srcMan)
  /\ reqs = EmptyBag
  /\ bTimers = 0
  /\ evLast = NoMsg

ProgIdle ==
  /\ cdnFm = FmPlain
  /\ srcMan = ""
  /\ fmLoaded = FALSE
  /\ fmFetches = 0
  /\ pst = makeProgressState("")
  /\ reqs = EmptyBag
  /\ bTimers = 0
  /\ evLast = NoMsg

\* the requests in flight when an init message arrives: they go on, and are
\* from then on requests of before the init
AllOld(b) ==
  LET Was(r) == [r EXCEPT !.old = FALSE]
      Count(r) == IF r \in DOMAIN b THEN b[r] ELSE 0
  IN [r \in {[x EXCEPT !.old = TRUE] : x \in DOMAIN b} |-> Count(r) + Count(Was(r))]

\* MODEL_SW_INIT for the same source, with any manifest option: the memo and
\* the progress state are replaced, a new filemap load starts; loads and
\* requests already in flight go on.
InitMessage ==
  /\ fmFetches < MaxLoads
  /\ \E man \in ManifestOptions :
       /\ srcMan' = man
       /\ pst' = makeProgressState(man)
  /\ fmLoaded' = FALSE
  /\ fmFetches' = fmFetches + 1
  /\ evLast' = NoMsg
  /\ bTimers' = ClearBroadcast(pst, bTimers)
  /\ reqs' = AllOld(reqs)
  /\ UNCHANGED cdnFm
  /\ UNCHANGED notProg

\* a filemap.json fetch succeeds: filemaps.set, initProgressFromFilemap
FilemapLoaded ==
  /\ fmFetches > 0
  /\ fmFetches' = fmFetches - 1
  /\ fmLoaded' = TRUE
  /\ pst' = initProgressFromFilemap(pst, cdnFm)
  /\ UNCHANGED <<cdnFm, srcMan, reqs, bTimers, evLast>>
  /\ UNCHANGED notProg

\* a filemap.json fetch fails: loadFilemap resolves to null
FilemapFailed ==
  /\ fmFetches > 0
  /\ fmFetches' = fmFetches - 1
  /\ UNCHANGED <<cdnFm, srcMan, fmLoaded, pst, reqs, bTimers, evLast>>
  /\ UNCHANGED notProg

\* a request finds neither memo nor pending load: loadFilemap fetches again
FilemapRetry ==
  /\ ~fmLoaded
  /\ fmFetches = 0
  /\ fmFetches' = 1
  /\ UNCHANGED <<cdnFm, srcMan, fmLoaded, pst, reqs, bTimers, evLast>>
  /\ UNCHANGED notProg

\* old: the request was intercepted before the latest init message
Req(vp, chunks, old) == [file |-> vp, left |-> chunks, old |-> old]

\* the recordProgress calls a request of `vp` will make: a full read reports
\* FileChunks(vp); a range read of a sharded file reports its length once
RequestChunks(vp) ==
  {FileChunks(vp)} \cup (IF IsSharded(vp) THEN {<<n>> : n \in 1..(FileSize(vp) - 1)} ELSE {})

\* handleModelFetch with the filemap in hand and relPath in it:
\* narrowManifest, trackFile, onFetchStart; then the first shard is awaited
RequestBegin(vp) ==
  /\ fmLoaded
  /\ BagCardinality(reqs) < MaxInflight
  /\ \E chunks \in RequestChunks(vp) :
       reqs' = reqs (+) SetToBag({Req(vp, chunks, FALSE)})
  /\ pst' = onFetchStart(trackFile(narrowManifest(pst, cdnFm, fmLoaded, vp), vp, FileSize(vp)))
  /\ NoBroadcast
  /\ UNCHANGED <<cdnFm, srcMan, fmLoaded, fmFetches, bTimers>>
  /\ UNCHANGED notProg

\* scheduleProgress(st), then `ending` tells whether onFetchEnd follows in
\* the same turn. throttled: performance.now() - lastBroadcast < 250 ms.
ScheduleThenEnd(st, throttled, ending) ==
  LET End(t) == IF ending THEN onFetchEnd(t) ELSE t
  IN IF IsDone(st)
       THEN /\ pst' = End([st EXCEPT !.broadcastTimer = FALSE])
            /\ bTimers' = ClearBroadcast(st, bTimers)
            /\ doBroadcast(st)
     ELSE IF ~throttled
       THEN /\ pst' = End(st)
            /\ UNCHANGED bTimers
            /\ doBroadcast(st)
     ELSE   /\ pst' = End([st EXCEPT !.broadcastTimer = TRUE])
            /\ bTimers' = ArmBroadcast(st, bTimers)
            /\ NoBroadcast

\* bytes of request i arrive: recordProgress, scheduleProgress, and after the
\* last of them onFetchEnd (the finally block)
RequestChunk(r) ==
  /\ BagIn(r, reqs)
  /\ LET last == Len(r.left) = 1
         rest == reqs (-) SetToBag({r})
     IN /\ reqs' = IF last THEN rest ELSE rest (+) SetToBag({Req(r.file, Tail(r.left), r.old)})
        /\ \E throttled \in BOOLEAN :
             ScheduleThenEnd(recordProgress(pst, r.file, Head(r.left)), throttled, last)
  /\ UNCHANGED <<cdnFm, srcMan, fmLoaded, fmFetches>>
  /\ UNCHANGED notProg

\* a shard fetch of request i fails: only the finally block's onFetchEnd runs
RequestFail(r) ==
  /\ BagIn(r, reqs)
  /\ reqs' = reqs (-) SetToBag({r})
  /\ pst' = onFetchEnd(pst)
  /\ NoBroadcast
  /\ UNCHANGED <<cdnFm, srcMan, fmLoaded, fmFetches, bTimers>>
  /\ UNCHANGED notProg

\* the idle timer's callback
IdleTimerFire ==
  /\ pst.idleTimer
  /\ LET st == [pst EXCEPT !.idleTimer = FALSE]
     IN IF st.pendingFetches = 0 /\ ~st.finalized
          THEN /\ pst' = finalizeProgress(st)
               /\ bTimers' = ClearBroadcast(st, bTimers)
               /\ doBroadcast(finalizeProgress(st))
          ELSE /\ pst' = st
               /\ UNCHANGED bTimers
               /\ NoBroadcast
  /\ UNCHANGED <<cdnFm, srcMan, fmLoaded, fmFetches, reqs>>
  /\ UNCHANGED notProg

\* the broadcast timer's callback
BroadcastTimerFire ==
  /\ bTimers > 0
  /\ bTimers' = bTimers - 1
  /\ pst' = [pst EXCEPT !.broadcastTimer = FALSE]
  /\ doBroadcast(pst)
  /\ UNCHANGED <<cdnFm, srcMan, fmLoaded, fmFetches, reqs>>
  /\ UNCHANGED notProg

\* MODEL_SW_COMPLETE for the source
CompleteMessage ==
  /\ ~pst.finalized
  /\ pst' = finalizeProgress(pst)
  /\ bTimers' = ClearBroadcast(pst, bTimers)
  /\ doBroadcast(finalizeProgress(pst))
  /\ UNCHANGED <<cdnFm, srcMan, fmLoaded, fmFetches, reqs>>
  /\ UNCHANGED notProg

ProgNext ==
  \/ InitMessage
  \/ FilemapLoaded
  \/ FilemapFailed
  \/ FilemapRetry
  \/ \E vp \in Files : RequestBegin(vp)
  \/ \E r \in BagToSet(reqs) : RequestChunk(r)
  \/ \E r \in BagToSet(reqs) : RequestFail(r)
  \/ IdleTimerFire
  \/ BroadcastTimerFire
  \/ CompleteMessage

\* ------------------------------------------------------- progress claims
\* C1: between two init messages the percent of each MODEL_SW_PROGRESS event
\* is at least the percent of the event before it.
C1_PercentMonotonic ==
  [][(evLast # NoMsg /\ evLast' # NoMsg) => evLast'.percent >= evLast.percent]_vars

\* C2: a request's narrowManifest step leaves loadedBytes at least as large as
\* it was, also when a file of no manifest has been loaded before it.
C2_NarrowKeepsLoaded ==
  [][\A vp \in Files :
       RequestBegin(vp) =>
         narrowManifest(pst, cdnFm, fmLoaded, vp).loadedBytes >= pst.loadedBytes]_vars

\* C3: once the filemap has loaded, totalBytes never increases until the next
\* init message.
C3_TotalNeverGrows ==
  [][(fmLoaded /\ fmLoaded') => pst'.totalBytes <= pst.totalBytes]_vars

\* C12: for a source registered without a manifest, when the idle timer fires
\* after every started request has ended, the source becomes finalized and
\* the event emitted has done = true, percent = 100 and a modelTotal that is
\* the sum of the sizes of the files that were requested.
C12_IdleFinalization ==
  [][(/\ IdleTimerFire
      /\ srcMan = ""
      /\ pst.activeFiles # {}
      /\ reqs = EmptyBag
      /\ pst.pendingFetches = 0)
     => /\ pst'.finalized
        /\ evLast'.done
        /\ evLast'.percent = 100
        /\ evLast'.modelTotal = SumSizes(pst.activeFiles)]_vars

\* C13: once a source is finalized no further progress event is emitted for
\* it until the next init, whatever requests arrive or complete: the last
\* event the page has seen stays the one finalization emitted.
C13_SilentAfterFinalized ==
  [][(pst.finalized /\ pst'.finalized) => evLast' = evLast]_vars

\* C15: a complete message, at any time after init, finalizes the source and
\* produces a progress event with done = true and percent = 100.
C15_CompleteGives100 ==
  [][CompleteMessage
     => /\ pst'.finalized
        /\ evLast'.done
        /\ evLast'.percent = 100]_vars

\* C14: every request that incremented pendingFetches decrements it once
\* when it ends, on every exit path: the counter never exceeds the number of
\* requests in flight and is 0 whenever none is in flight.
C14_PendingMatchesInflight ==
  /\ pst.pendingFetches <= BagCardinality(reqs)
  /\ reqs = EmptyBag => pst.pendingFetches = 0

\* C14 witness: two requests were in flight together and both have ended,
\* one of them a read of the sharded file.
C14_Witness ==
  /\ reqs = EmptyBag
  /\ pst.pendingFetches = 0
  /\ {"a", "b"} \subseteq pst.activeFiles
  /\ pst.loadedBytes > 0
  /\ pst.idleTimer

\* the candidates whose manifest lists relPath, in the order of candidates
Keeping(st, fm, relPath) ==
  LET Lists(n) == relPath \in fm.manifests[n].files IN SelectSeq(st.candidates, Lists)

\* n is one of `names` and no manifest of `names` is larger
IsLargestOf(fm, n, names) ==
  /\ n \in names
  /\ \A m \in names : fm.manifests[n].size >= fm.manifests[m].size

SeqSet(s) == {s[i] : i \in 1..Len(s)}

\* C31: at the filemap load of a source without manifest option the selected
\* manifest is one of largest size among all manifests; a request whose
\* relPath is listed by some but not all candidates leaves as candidates
\* exactly those that list it, selects the largest of them and makes its size
\* the denominator; a relPath listed by all or by none of the candidates
\* changes neither the candidates nor the selected manifest.
C31_AdaptiveSelection ==
  [][/\ (FilemapLoaded /\ srcMan = "" /\ Len(cdnFm.names) > 0)
          => IsLargestOf(cdnFm, pst'.selectedManifest, DOMAIN cdnFm.manifests)
     /\ \A vp \in Files :
          (RequestBegin(vp) /\ pst.mode = "adaptive" /\ ~pst.finalized)
            => LET keep == Keeping(pst, cdnFm, vp) IN
               IF 0 < Len(keep) /\ Len(keep) < Len(pst.candidates)
                 THEN /\ pst'.candidates = keep
                      /\ IsLargestOf(cdnFm, pst'.selectedManifest, SeqSet(keep))
                      /\ pst'.totalBytes = cdnFm.manifests[pst'.selectedManifest].size
                 ELSE /\ pst'.candidates = pst.candidates
                      /\ pst'.selectedManifest = pst.selectedManifest]_vars

\* C32: when the source was registered with a manifest name that the loaded
\* filemap does not contain, the filemap load leaves a progress state whose
\* reported mode is fallback, whose tracked files are all files of the
\* filemap and whose totalBytes is the sum of their sizes.
C32_MissingManifestFallback ==
  [][(FilemapLoaded /\ srcMan # "" /\ srcMan \notin DOMAIN cdnFm.manifests)
       => /\ ProgressMsg(pst').mode = "fallback"
          /\ DOMAIN pst'.files = cdnFm.files
          /\ pst'.totalBytes = SumSizes(cdnFm.files)]_vars

\* C33: the idle timer finalizes a source only from a state with
\* pendingFetches = 0 and a mode other than explicit: a request's start
\* leaves no idle timer armed, a timer that fires while pendingFetches > 0
\* changes nothing but itself and emits nothing, and a source in explicit
\* mode becomes finalized only by a complete message.
C33_TimerFinalization ==
  [][/\ (IdleTimerFire /\ ~pst.finalized /\ pst'.finalized)
          => pst.pendingFetches = 0 /\ pst.mode # "explicit"
     /\ \A vp \in Files : RequestBegin(vp) => ~pst'.idleTimer
     /\ (IdleTimerFire /\ pst.pendingFetches > 0)
          => pst' = [pst EXCEPT !.idleTimer = FALSE] /\ evLast' = evLast
     /\ (pst.mode = "explicit" /\ ~pst.finalized /\ pst'.finalized) => CompleteMessage]_vars

\* C33 witness: a request ended and armed the idle timer, the next request
\* started before it fired, and the source is not finalized.
C33_Witness ==
  /\ srcMan = ""
  /\ ~pst.finalized
  /\ ~pst.idleTimer
  /\ pst.pendingFetches = 1
  /\ BagCardinality(reqs) = 1
  /\ pst.activeFiles = {"s", "b"}
  /\ pst.files["s"].loaded = 1
  /\ BagIn(Req("b", <<1, 1>>, FALSE), reqs)

\* modelLoaded of the last event the page has seen since the last init
Emitted == IF evLast = NoMsg THEN -1 ELSE evLast.modelLoaded

\* C34: whenever loadedBytes has advanced to a value no event has reported
\* yet, an event with a modelLoaded at least that large is emitted later
\* (at once, by the broadcast timer or by finalization) unless an init
\* message comes first; and at most one broadcast timer is pending at any
\* time.
C34_TrailingEmission ==
  /\ \A L \in 1..SumSizes(Files) :
       (pst.loadedBytes = L /\ Emitted < L) ~> (Emitted >= L \/ evLast = NoMsg)
  /\ [](bTimers <= 1)

\* C37: in every progress state each tracked file has 0 <= loaded <= size,
\* loadedBytes is the sum of loaded over the tracked files, and loadedBytes
\* is at most totalBytes.
C37_ByteAccounting ==
  /\ \A vp \in DOMAIN pst.files :
       0 <= pst.files[vp].loaded /\ pst.files[vp].loaded <= pst.files[vp].size
  /\ pst.loadedBytes = SumLoaded(pst.files)
  /\ pst.loadedBytes <= pst.totalBytes

\* requests in flight that were intercepted before / after the latest init
RECURSIVE BagCount(_, _)
BagCount(b, old) ==
  IF DOMAIN b = {} THEN 0
  ELSE LET r == CHOOSE x \in DOMAIN b : TRUE
           rest == [x \in DOMAIN b \ {r} |-> b[x]]
       IN (IF r.old = old THEN b[r] ELSE 0) + BagCount(rest, old)

\* C38: pendingFetches of the progress state equals the number of requests in
\* flight that started after the latest init message; and the end of a
\* request from before the init, while a newer request is in flight, leaves
\* the counter, the idle timer and the finalized flag as they were.
C38_InitInFlight ==
  /\ [](pst.pendingFetches = BagCount(reqs, FALSE))
  /\ [][(BagCount(reqs', TRUE) < BagCount(reqs, TRUE) /\ BagCount(reqs, FALSE) > 0)
          => /\ pst'.pendingFetches = pst.pendingFetches
             /\ pst'.idleTimer = pst.idleTimer
             /\ pst'.finalized = pst.finalized]_vars

\* ------------------------------------------------ filemap loading (memo)
\* loadFilemap (worker) and _loadFilemap (resolver) for one source key.
Tasks == 1..MaxTasks

FmapInit ==
  /\ fImpl \in {"sw", "node", "nodeLocal"}
  /\ fMemo = FALSE
  /\ fSlot = 0
  /\ fTask = [t \in Tasks |-> "unused"]
  /\ fDisk \in (IF fImpl = "node" THEN BOOLEAN ELSE {FALSE})
  /\ fPc = [c \in Callers |-> "idle"]
  /\ fWait = [c \in Callers |-> 0]
  /\ fRes = [c \in Callers |-> "none"]

FmapIdle ==
  /\ fImpl = "sw"
  /\ fMemo = FALSE
  /\ fSlot = 0
  /\ fTask = [t \in Tasks |-> "unused"]
  /\ fDisk = FALSE
  /\ fPc = [c \in Callers |-> "off"]
  /\ fWait = [c \in Callers |-> 0]
  /\ fRes = [c \in Callers |-> "none"]

Fetching == {t \in Tasks : fTask[t] = "fetching"}

Unused == {t \in Tasks : fTask[t] = "unused"}

\* The async function handed to filemapLoading.set runs up to its first
\* await before the set: the worker and a remote source without a cached
\* filemap file stop at `await fetch`; a local source, and a remote one with a
\* cached filemap file, run to their end (outcome "ok": filemaps.set; outcome
\* "failed": the catch block's filemapLoading.delete finds nothing to delete)
\* and only then is the settled promise stored in the slot.
StartOutcomes ==
  CASE fImpl = "sw" -> {"fetching"}
    [] fImpl = "node" -> IF fDisk THEN {"ok"} ELSE {"fetching"}
    [] OTHER -> {"ok", "failed"}

\* the part of loadFilemap past `if (filemaps.has(key)) return`, when called
\* with memo `memo` and slot `slot`: the task whose promise is returned
StartLoad(memo, slot, t, outcome) ==
  /\ fTask' = [fTask EXCEPT ![t] = outcome]
  /\ fSlot' = t
  /\ fMemo' = (memo \/ outcome = "ok")

\* a request (or resolve()) calls loadFilemap
LoadFilemap(c) ==
  /\ fPc[c] = "idle"
  /\ IF fMemo
       THEN /\ fPc' = [fPc EXCEPT ![c] = "done"]
            /\ fRes' = [fRes EXCEPT ![c] = "data"]
            /\ UNCHANGED <<fMemo, fSlot, fTask, fWait>>
     ELSE IF fSlot # 0
       THEN /\ fPc' = [fPc EXCEPT ![c] = "waiting"]
            /\ fWait' = [fWait EXCEPT ![c] = fSlot]
            /\ UNCHANGED <<fMemo, fSlot, fTask, fRes>>
     ELSE /\ Unused # {}
          /\ LET t == CHOOSE u \in Unused : \A v \in Unused : u <= v
             IN /\ \E outcome \in StartOutcomes :
                     StartLoad(fMemo, fSlot, t, outcome)
                /\ fPc' = [fPc EXCEPT ![c] = "waiting"]
                /\ fWait' = [fWait EXCEPT ![c] = t]
          /\ UNCHANGED fRes
  /\ UNCHANGED <<fImpl, fDisk>>
  /\ UNCHANGED notFmap

\* the filemap fetch of task t succeeds: filemaps.set (and the resolver
\* writes its filemap file)
LoadOk(t) ==
  /\ fTask[t] = "fetching"
  /\ fTask' = [fTask EXCEPT ![t] = "ok"]
  /\ fMemo' = TRUE
  /\ fDisk' = (fDisk \/ fImpl = "node")
  /\ UNCHANGED <<fImpl, fSlot, fPc, fWait, fRes>>
  /\ UNCHANGED notFmap

\* the filemap fetch of task t fails: catch, filemapLoading.delete(key)
LoadFail(t) ==
  /\ fTask[t] = "fetching"
  /\ fTask' = [fTask EXCEPT ![t] = "failed"]
  /\ fSlot' = 0
  /\ UNCHANGED <<fImpl, fMemo, fDisk, fPc, fWait, fRes>>
  /\ UNCHANGED notFmap

\* the promise a caller awaits has settled: the caller goes on with the
\* filemap or with null
LoadReturn(c) ==
  /\ fPc[c] = "waiting"
  /\ fTask[fWait[c]] \in {"ok", "failed"}
  /\ fPc' = [fPc EXCEPT ![c] = "done"]
  /\ fRes' = [fRes EXCEPT ![c] = IF fTask[fWait[c]] = "ok" THEN "data" ELSE "null"]
  /\ UNCHANGED <<fImpl, fMemo, fSlot, fTask, fDisk, fWait>>
  /\ UNCHANGED notFmap

\* the caller's request is over; the page makes another one
LoadAgain(c) ==
  /\ fPc[c] = "done"
  /\ fPc' = [fPc EXCEPT ![c] = "idle"]
  /\ fWait' = [fWait EXCEPT ![c] = 0]
  /\ fRes' = [fRes EXCEPT ![c] = "none"]
  /\ UNCHANGED <<fImpl, fMemo, fSlot, fTask, fDisk>>
  /\ UNCHANGED notFmap

\* MODEL_SW_INIT: filemaps.clear(), filemapLoading.clear(), loadFilemap(key);
\* addSource of the resolver: _loadFilemap(key), nothing cleared
FmapInitMessage ==
  /\ Unused # {}
  /\ LET memo == IF fImpl = "sw" THEN FALSE ELSE fMemo
         slot == IF fImpl = "sw" THEN 0 ELSE fSlot
         t == CHOOSE u \in Unused : \A v \in Unused : u <= v
     IN IF memo \/ slot # 0
          THEN UNCHANGED <<fMemo, fSlot, fTask>>
          ELSE \E outcome \in StartOutcomes : StartLoad(memo, slot, t, outcome)
  /\ UNCHANGED <<fImpl, fDisk, fPc, fWait, fRes>>
  /\ UNCHANGED notFmap

\* MODEL_SW_CLEAR_CACHE deletes the shard cache only; the resolver's
\* clearCache() removes cacheDir and clears both maps
FmapClearCache ==
  /\ IF fImpl = "sw"
       THEN UNCHANGED <<fMemo, fSlot, fDisk>>
       ELSE /\ fMemo' = FALSE
            /\ fSlot' = 0
            /\ fDisk' = FALSE
  /\ UNCHANGED <<fImpl, fTask, fPc, fWait, fRes>>
  /\ UNCHANGED notFmap

FmapNext ==
  \/ \E c \in Callers : LoadFilemap(c)
  \/ \E t \in Tasks : LoadOk(t)
  \/ \E t \in Tasks : LoadFail(t)
  \/ \E c \in Callers : LoadReturn(c)
  \/ \E c \in Callers : LoadAgain(c)
  \/ FmapInitMessage
  \/ FmapClearCache

\* ---------------------------------------------- claims: filemap loading
\* C16: for a source key, at every instant at most one filemap fetch is in
\* flight, also when an init or a clear-cache arrives while a load is in
\* flight.
C16_OneFilemapFetch == Cardinality(Fetching) <= 1

\* C17: when a filemap load has failed, the pending slot of the key is
\* cleared (so the next loadFilemap call starts a new load): the slot never
\* holds the promise of a failed load.
C17_FailedLoadClearsSlot == fSlot # 0 => fTask[fSlot] # "failed"

\* ------------------------------------------------------- source matching
\* Paths are strings over two characters, the separator and a letter.
Chars == {"/", "m"}

Strings(lo, hi) == UNION {[1..n -> Chars] : n \in lo..hi}

\* s.pathPrefix.endsWith('/') ? s.pathPrefix : s.pathPrefix + '/'
CanonicalPrefix(p) == IF p # <<>> /\ p[Len(p)] = "/" THEN p ELSE Append(p, "/")

\* pathname.startsWith(prefix)
StartsWith(pathname, prefix) ==
  Len(prefix) <= Len(pathname) /\ SubSeq(pathname, 1, Len(prefix)) = prefix

\* pathname.slice(n)
SliceFrom(pathname, n) == SubSeq(pathname, n + 1, Len(pathname))

NoMatch == [found |-> FALSE, index |-> 0, relPath |-> <<>>]

RECURSIVE MatchFromAny(_, _, _)
\* (mutant) an empty relPath is accepted
MatchFromAny(sources, pathname, i) ==
  IF i > Len(sources) THEN NoMatch
  ELSE IF StartsWith(pathname, sources[i].pathPrefix)
         THEN [found |-> TRUE, index |-> i,
               relPath |-> SliceFrom(pathname, Len(sources[i].pathPrefix))]
         ELSE MatchFromAny(sources, pathname, i + 1)

RECURSIVE MatchFrom(_, _, _)
\* the loop of matchSource from source i on
MatchFrom(sources, pathname, i) ==
  IF i > Len(sources) THEN NoMatch
  ELSE IF StartsWith(pathname, sources[i].pathPrefix)
            /\ SliceFrom(pathname, Len(sources[i].pathPrefix)) # <<>>
         THEN [found |-> TRUE, index |-> i,
               relPath |-> SliceFrom(pathname, Len(sources[i].pathPrefix))]
         ELSE MatchFrom(sources, pathname, i + 1)

matchSource(sources, pathname) == MatchFrom(sources, pathname, 1)

MatchInit ==
  /\ mSources = <<>>
  /\ mPath = <<>>
  /\ mMatch = NoMatch

MatchIdle ==
  /\ mSources = <<>>
  /\ mPath = <<"idle">>
  /\ mMatch = NoMatch

\* a source is registered (addSource; an entry of MODEL_SW_INIT's sources);
\* the last lookup, made with the sources as they were, is forgotten
AddSource ==
  /\ Len(mSources) < MaxSources
  /\ \E p \in Strings(1, MaxPrefixLen) :
       mSources' = Append(mSources, [pathPrefix |-> CanonicalPrefix(p)])
  /\ mPath' = <<>>
  /\ mMatch' = NoMatch
  /\ UNCHANGED notMatch

\* a request for a pathname is looked up
MatchRequest ==
  /\ \E pathname \in Strings(1, MaxPathLen) :
       /\ mPath' = pathname
       /\ mMatch' = matchSource(mSources, pathname)
  /\ UNCHANGED mSources
  /\ UNCHANGED notMatch

MatchNext == AddSource \/ MatchRequest

\* ---------------------------------------------- claims: source matching
\* the sources whose prefix is a proper prefix of the path
Admits(i) ==
  /\ StartsWith(mPath, mSources[i].pathPrefix)
  /\ Len(mPath) > Len(mSources[i].pathPrefix)

\* C20: the matcher returns the first source in registration order whose
\* pathPrefix, ending in '/', is a prefix of the path and leaves a non-empty
\* remainder, together with that remainder, and no match when there is none.
C20_FirstProperPrefixWins ==
  LET cands == {i \in 1..Len(mSources) : Admits(i)}
  IN /\ \A i \in 1..Len(mSources) :
          mSources[i].pathPrefix[Len(mSources[i].pathPrefix)] = "/"
     /\ cands = {} => ~mMatch.found
     /\ cands # {} =>
          /\ mMatch.found
          /\ mMatch.index \in cands
          /\ \A i \in cands : mMatch.index <= i
          /\ mSources[mMatch.index].pathPrefix \o mMatch.relPath = mPath
          /\ mMatch.relPath # <<>>

\* C20 witness: the path equals the first source's prefix, which therefore
\* does not intercept it, and the second source, with a shorter overlapping
\* prefix, does.
C20_Witness ==
  /\ Len(mSources) = 2
  /\ mPath = mSources[1].pathPrefix
  /\ mMatch.found /\ mMatch.index = 2
  /\ mMatch.relPath # <<>>

\* ------------------------------------------- in-process resolver: fetch hook
Resolvers == 1..MaxResolvers

\* A function that globalThis.fetch can hold: the platform's fetch, or the
\* n-th wrapper that resolver r created (every install creates a new closure).
NativeFetch == <<0, 0>>
Wrapper(r, n) == <<r, n>>
NoFn == <<>>
IsWrapper(f) == f # NoFn /\ f[1] \in Resolvers

HookInit ==
  /\ gFetch = NativeFetch
  /\ hOrig = [r \in Resolvers |-> NoFn]
  /\ hHooked = [r \in Resolvers |-> FALSE]
  /\ hGen = [r \in Resolvers |-> 0]
  /\ hBefore = [r \in Resolvers |-> NoFn]
  /\ hInst = [r \in Resolvers |-> 0]
  /\ cMatch = {}
  /\ cPath = <<>>
  /\ cEnd = "none"

HookIdle ==
  /\ gFetch = NativeFetch
  /\ hOrig = [r \in Resolvers |-> NoFn]
  /\ hHooked = [r \in Resolvers |-> FALSE]
  /\ hGen = [r \in Resolvers |-> 0]
  /\ hBefore = [r \in Resolvers |-> NoFn]
  /\ hInst = [r \in Resolvers |-> 0]
  /\ cMatch = {}
  /\ cPath = <<"idle">>
  /\ cEnd = "none"

\* what the two hook operations record beside the resolver's own fields: the
\* function that was in place at the first install of a pairing, and that the
\* last call's path belongs to the hooks as they were
NoteInstall(r) ==
  /\ hBefore' = [hBefore EXCEPT ![r] = IF hInst[r] = 0 THEN gFetch ELSE @]
  /\ hInst' = [hInst EXCEPT ![r] = Min(@ + 1, 2)]
  /\ cMatch' = {} /\ cPath' = <<>> /\ cEnd' = "none"

\* installFetchHook without its first line
installFetchHookNoGuard(r) ==
  /\ hGen[r] < MaxInstalls
  /\ hOrig' = [hOrig EXCEPT ![r] = gFetch]
  /\ gFetch' = Wrapper(r, hGen[r] + 1)
  /\ hGen' = [hGen EXCEPT ![r] = @ + 1]
  /\ hHooked' = [hHooked EXCEPT ![r] = TRUE]
  /\ NoteInstall(r)
  /\ UNCHANGED notHook

installFetchHook(r) ==
  /\ IF hHooked[r]
       THEN UNCHANGED <<gFetch, hOrig, hHooked, hGen>>
       ELSE /\ hGen[r] < MaxInstalls
            /\ hOrig' = [hOrig EXCEPT ![r] = gFetch]
            /\ gFetch' = Wrapper(r, hGen[r] + 1)
            /\ hGen' = [hGen EXCEPT ![r] = @ + 1]
            /\ hHooked' = [hHooked EXCEPT ![r] = TRUE]
  /\ NoteInstall(r)
  /\ UNCHANGED notHook

removeFetchHook(r) ==
  /\ IF hHooked[r]
       THEN /\ gFetch' = hOrig[r]
            /\ hHooked' = [hHooked EXCEPT ![r] = FALSE]
       ELSE UNCHANGED <<gFetch, hHooked>>
  /\ hInst' = [hInst EXCEPT ![r] = 0]
  /\ cMatch' = {} /\ cPath' = <<>> /\ cEnd' = "none"
  /\ UNCHANGED <<hOrig, hGen, hBefore>>
  /\ UNCHANGED notHook

\* The call chain of one fetch(input): a wrapper of resolver r answers the
\* call itself when the URL matches one of r's sources and calls
\* r._originalFetch otherwise; the calls nest synchronously, so the chain is
\* run in one step.  A chain longer than the number of functions there are
\* repeats a function and never ends (the call stack overflows).
MaxChain == MaxResolvers * MaxInstalls + 1

RECURSIVE CallChain(_, _, _)
CallChain(f, match, path) ==
  IF Len(path) >= MaxChain THEN [path |-> path, end |-> "overflow"]
  ELSE IF ~IsWrapper(f) THEN [path |-> Append(path, f), end |-> "native"]
  ELSE IF f[1] \in match THEN [path |-> Append(path, f), end |-> "handled"]
  ELSE CallChain(hOrig[f[1]], match, Append(path, f))

CallFetch ==
  \E match \in SUBSET Resolvers :
    LET c == CallChain(gFetch, match, <<>>) IN
    /\ cMatch' = match
    /\ cPath' = c.path
    /\ cEnd' = c.end
    /\ UNCHANGED <<gFetch, hOrig, hHooked, hGen, hBefore, hInst>>
    /\ UNCHANGED notHook

HookNext ==
  \/ \E r \in Resolvers : installFetchHook(r)
  \/ \E r \in Resolvers : removeFetchHook(r)
  \/ CallFetch

\* ------------------------------------------------------- claims: fetch hook
\* C21: for every resolver, an installFetchHook while hooked changes neither
\* globalThis.fetch nor the saved original; a removeFetchHook while hooked
\* puts back the function that globalThis.fetch held before the first install
\* of the pairing; and in a fetch call, a wrapper of a hooked resolver whose
\* sources do not match the URL hands the call to that same function (the
\* recorded path of a chain that never ends stops after MaxChain calls).
C21_HookPairing ==
  [][/\ \A r \in Resolvers :
          /\ (installFetchHook(r) /\ hHooked[r])
               => gFetch' = gFetch /\ hOrig' = hOrig
          /\ (removeFetchHook(r) /\ hHooked[r]) => gFetch' = hBefore[r]
     /\ CallFetch =>
          \A i \in 1..Len(cPath') :
            LET f == cPath'[i] IN
            (IsWrapper(f) /\ hHooked[f[1]] /\ f[1] \notin cMatch')
              => IF i < Len(cPath')
                   THEN cPath'[i + 1] = hBefore[f[1]]
                   ELSE cEnd' = "overflow"]_vars

\* resolver 1 was installed twice over the platform's fetch, with resolver 2's
\* hook installed on top of it; resolver 2 has been removed again and a call
\* that matches nobody's sources went through resolver 1's wrapper to the
\* platform's fetch
C21_Witness ==
  /\ hInst[1] = 2 /\ hHooked[1] /\ hBefore[1] = NativeFetch
  /\ hGen[2] = 1 /\ ~hHooked[2]
  /\ gFetch = Wrapper(1, 1)
  /\ cMatch = {} /\ cPath = <<Wrapper(1, 1), NativeFetch>> /\ cEnd = "native"

\* C39: once every resolver that installed the hook has removed it, fetch is
\* the function that was in place before the first install, and a call
\* passes through no resolver's wrapper.
C39_RemovalsRestoreFetch ==
  ((\A r \in Resolvers : ~hHooked[r]) /\ (\E r \in Resolvers : hGen[r] > 0))
    => /\ gFetch = NativeFetch
       /\ CallChain(gFetch, {}, <<>>).path = <<NativeFetch>>

\* ------------------------------------------------------------ package format
\* The bytes of a packaged file: n bytes that differ by position and by tag,
\* so a misplaced, missing or foreign byte shows.
Content(n, tag) == [i \in 1..n |-> 10 * tag + i]
Contents == {Content(n, tag) : n \in 0..MaxFileLen, tag \in 1..2}

\* SHA-256 is used for comparison only: equal digests stand for equal bytes.
Sha256(bytes) == <<"sha256", bytes>>

\* A CDN object name: <<fn, 0>> is the object "fn" itself, <<fn, k>> the k-th
\* piece that split writes for it ("fn.shard.000" is <<fn, 1>>).
Direct(fn) == <<fn, 0>>
ShardName(fn, k) == <<fn, k>>
NoName == <<>>

\* split -b CHUNK_SIZE: the number of pieces and the k-th piece
NumShards(n) == (n + ChunkSize - 1) \div ChunkSize
ShardOf(bytes, k) == SubSeq(bytes, (k - 1) * ChunkSize + 1, Min(k * ChunkSize, Len(bytes)))
needs_byte_split(bytes) == Len(bytes) > ChunkSize

\* The filemap entry and the CDN objects of one file stored under the flat
\* name fn, as the filemap format describes them.
FileEntry(fn, bytes) ==
  IF needs_byte_split(bytes)
    THEN [size |-> Len(bytes), sha256 |-> Sha256(bytes), cdn_file |-> NoName,
          shards |-> [k \in 1..NumShards(Len(bytes)) |->
                       [file |-> ShardName(fn, k),
                        offset |-> (k - 1) * ChunkSize,
                        size |-> Len(ShardOf(bytes, k))]]]
    ELSE [size |-> Len(bytes), sha256 |-> Sha256(bytes), cdn_file |-> Direct(fn),
          shards |-> <<>>]

FileObjects(fn, bytes) ==
  IF needs_byte_split(bytes)
    THEN [n \in {ShardName(fn, k) : k \in 1..NumShards(Len(bytes))} |-> ShardOf(bytes, n[2])]
    ELSE [n \in {Direct(fn)} |-> bytes]

\* ------------------------------------------- in-process resolver: resolve()
Vps == {"a", "b"}
\* opts.manifest: none, or the one manifest of the filemap
ManifestOpts == {"", "m"}
NoFile == <<-1>>
NaN == [nan |-> TRUE, val |-> 0]
Num(n) == [nan |-> FALSE, val |-> n]

\* Math.round(loaded / total * 100) for 0 <= loaded: 0 / 0 is NaN
ResolvePercent(loaded, total) ==
  IF total = 0 THEN NaN ELSE Num(RoundPercent(loaded, total))

\* A byte of an object damaged in storage or in transit (the length is kept)
Damaged(bytes) == IF bytes = <<>> THEN bytes ELSE [bytes EXCEPT ![1] = @ + 100]

FirstObject(fn, bytes) == IF needs_byte_split(bytes) THEN ShardName(fn, 1) ELSE Direct(fn)

\* The package of files a and b with the given bytes, each stored under its
\* own name; the first object of the files in `bad` is damaged.
PackageStore(bytes, bad) ==
  LET objs == FileObjects("a", bytes["a"]) @@ FileObjects("b", bytes["b"]) IN
  [n \in DOMAIN objs |->
     IF \E vp \in bad : n = FirstObject(vp, bytes[vp]) THEN Damaged(objs[n]) ELSE objs[n]]

PackageFilemap(bytes, mfiles) ==
  [files |-> [vp \in Vps |-> FileEntry(vp, bytes[vp])],
   manifests |-> [m \in {"m"} |-> [files |-> mfiles]]]

\* _getFileList: the manifest's list, or Object.keys(filemap.files)
getFileList(filemap, manifestName) ==
  IF manifestName # "" /\ manifestName \in DOMAIN filemap.manifests
    THEN filemap.manifests[manifestName].files
    ELSE <<"a", "b">>

\* _cachePathForSource(key, manifest): one directory per manifest option
cachePathForSource(manifest) == <<"resolved", manifest>>

EntrySize(filemap, vp) == IF vp \in DOMAIN filemap.files THEN filemap.files[vp].size ELSE 0

RECURSIVE ListBytes(_, _)
ListBytes(filemap, list) ==
  IF list = <<>> THEN 0 ELSE EntrySize(filemap, Head(list)) + ListBytes(filemap, Tail(list))

\* fs.writeSync(fd, buf, 0, buf.length, offset): bytes never written read as 0
WriteAt(file, buf, offset) ==
  [i \in 1..Max(Len(file), offset + Len(buf)) |->
     IF i > offset /\ i <= offset + Len(buf) THEN buf[i - offset]
     ELSE IF i <= Len(file) THEN file[i] ELSE 0]

\* The shard loop of _reassembleFile from shard k on; the read of shard failAt
\* throws (a local file that is missing, a fetch that failed after its retries).
RECURSIVE WriteShards(_, _, _, _, _)
WriteShards(shards, store, failAt, k, acc) ==
  IF k > Len(shards) THEN acc
  ELSE IF k = failAt \/ shards[k].file \notin DOMAIN store
    THEN [acc EXCEPT !.reads = @ + 1, !.ok = FALSE]
  ELSE WriteShards(shards, store, failAt, k + 1,
         [acc EXCEPT !.file = WriteAt(@, store[shards[k].file], shards[k].offset),
                     !.chunks = Append(@, shards[k].size),
                     !.reads = @ + 1])

\* _reassembleFile: what it leaves at outPath (old: what was there), the byte
\* counts it reported through onBytes, the reads it made, whether it opened
\* outPath for writing, and whether it returned (ok) or threw.
reassembleFile(vp, entry, old, store, verify, failAt) ==
  IF entry.shards = <<>>
    THEN LET name == IF entry.cdn_file # NoName THEN entry.cdn_file ELSE Direct(vp) IN
         IF failAt = 1 \/ name \notin DOMAIN store
           THEN [file |-> old, chunks |-> <<>>, reads |-> 1, opened |-> FALSE, ok |-> FALSE]
           ELSE [file |-> store[name], chunks |-> <<entry.size>>, reads |-> 1,
                 opened |-> TRUE, ok |-> TRUE]
    ELSE LET w == WriteShards(entry.shards, store, failAt, 1,
                    [file |-> <<>>, chunks |-> <<>>, reads |-> 0, opened |-> TRUE, ok |-> TRUE]) IN
         IF w.ok /\ verify /\ Sha256(w.file) # entry.sha256
           THEN [w EXCEPT !.file = NoFile, !.ok = FALSE]
           ELSE w

\* the onProgress events of one file: one per onBytes call
RECURSIVE ChunkEvents(_, _, _, _)
ChunkEvents(chunks, loaded, total, vp) ==
  IF chunks = <<>> THEN <<>>
  ELSE <<[percent |-> ResolvePercent(loaded + Head(chunks), total),
          loaded |-> loaded + Head(chunks), total |-> total, file |-> vp, done |-> FALSE]>>
       \o ChunkEvents(Tail(chunks), loaded + Head(chunks), total, vp)

\* resolve's test that a file is already there, comparing the file's size
\* with the size of the entry's first shard
SkipTestFirstShard(dir, vp) ==
  /\ zOut[dir][vp] # NoFile
  /\ Len(zOut[dir][vp]) = IF zFm.files[vp].shards # <<>>
                            THEN zFm.files[vp].shards[1].size ELSE zFm.files[vp].size

\* fs.existsSync(outPath) && fs.statSync(outPath).size === entry.size
SkipTest(dir, vp) ==
  zOut[dir][vp] # NoFile /\ Len(zOut[dir][vp]) = zFm.files[vp].size

ResolveInit ==
  /\ \E bytes \in [Vps -> Contents], bad \in SUBSET Vps, mfiles \in {<<"a">>, <<"b", "a">>} :
       /\ zFm = PackageFilemap(bytes, mfiles)
       /\ zStore = PackageStore(bytes, bad)
  /\ zVerify \in BOOLEAN
  /\ zMemo = FALSE
  /\ zOut = [d \in {cachePathForSource(m) : m \in ManifestOpts} |-> [vp \in Vps |-> NoFile]]
  /\ zPc = "idle"
  /\ zIdx = 0
  /\ zCalls = <<>>
  /\ zLoaded = 0
  /\ zTotal = 0
  /\ zEvents = <<>>

ResolveIdle ==
  /\ zFm = [files |-> <<>>, manifests |-> <<>>]
  /\ zStore = <<>>
  /\ zVerify = FALSE
  /\ zMemo = FALSE
  /\ zOut = <<>>
  /\ zPc = "off"
  /\ zIdx = 0
  /\ zCalls = <<>>
  /\ zLoaded = 0
  /\ zTotal = 0
  /\ zEvents = <<>>

ThisCall == zCalls[Len(zCalls)]
ThisList == getFileList(zFm, ThisCall.manifest)

\* resolve(source, opts) up to its for loop: the filemap is loaded (it may
\* fail to load until one load has succeeded), the list, the directory and
\* totalBytes are computed
ResolveCall ==
  /\ zPc \in {"idle", "done", "failed"}
  /\ Len(zCalls) < MaxRuns
  /\ \E manifest \in ManifestOpts, loaded \in (IF zMemo THEN {TRUE} ELSE BOOLEAN) :
       LET call == [manifest |-> manifest, result |-> "running",
                    dir |-> cachePathForSource(manifest), reads |-> 0, writes |-> {}] IN
       IF loaded
         THEN /\ zMemo' = TRUE
              /\ zCalls' = Append(zCalls, call)
              /\ zPc' = "loop"
              /\ zIdx' = 1
              /\ zTotal' = ListBytes(zFm, getFileList(zFm, manifest))
         ELSE /\ zCalls' = Append(zCalls, [call EXCEPT !.result = "failed"])
              /\ zPc' = "failed"
              /\ UNCHANGED <<zMemo, zIdx, zTotal>>
  /\ zLoaded' = 0
  /\ zEvents' = <<>>
  /\ UNCHANGED <<zFm, zStore, zVerify, zOut>>
  /\ UNCHANGED notResolve

\* one iteration of the for loop
ResolveFile ==
  /\ zPc = "loop"
  /\ zIdx <= Len(ThisList)
  /\ LET vp == ThisList[zIdx]
         dir == ThisCall.dir
         n == Len(zCalls) IN
     IF vp \notin DOMAIN zFm.files
       THEN /\ zIdx' = zIdx + 1
            /\ UNCHANGED <<zOut, zPc, zCalls, zLoaded, zEvents>>
     ELSE IF SkipTest(dir, vp)
       THEN /\ zIdx' = zIdx + 1
            /\ zLoaded' = zLoaded + zFm.files[vp].size
            /\ zEvents' = Append(zEvents,
                 [percent |-> ResolvePercent(zLoaded + zFm.files[vp].size, zTotal),
                  loaded |-> zLoaded + zFm.files[vp].size, total |-> zTotal,
                  file |-> vp, done |-> FALSE])
            /\ UNCHANGED <<zOut, zPc, zCalls>>
     ELSE \E failAt \in 0..Max(1, Len(zFm.files[vp].shards)) :
            LET r == reassembleFile(vp, zFm.files[vp], zOut[dir][vp], zStore, zVerify, failAt) IN
            /\ zOut' = [zOut EXCEPT ![dir][vp] = r.file]
            /\ zLoaded' = zLoaded + SumSeq(r.chunks)
            /\ zEvents' = zEvents \o ChunkEvents(r.chunks, zLoaded, zTotal, vp)
            /\ zCalls' = [zCalls EXCEPT
                 ![n].reads = @ + r.reads,
                 ![n].writes = IF r.opened THEN @ \cup {vp} ELSE @,
                 ![n].result = IF r.ok THEN @ ELSE "failed"]
            /\ zPc' = IF r.ok THEN "loop" ELSE "failed"
            /\ zIdx' = IF r.ok THEN zIdx + 1 ELSE zIdx
  /\ UNCHANGED <<zFm, zStore, zVerify, zMemo, zTotal>>
  /\ UNCHANGED notResolve

\* after the loop: the last event and the return of outDir
ResolveReturn ==
  /\ zPc = "loop"
  /\ zIdx > Len(ThisList)
  /\ zEvents' = Append(zEvents,
       [percent |-> Num(100), loaded |-> zTotal, total |-> zTotal, file |-> "", done |-> TRUE])
  /\ zCalls' = [zCalls EXCEPT ![Len(zCalls)].result = "ok"]
  /\ zPc' = "done"
  /\ UNCHANGED <<zFm, zStore, zVerify, zMemo, zOut, zIdx, zLoaded, zTotal>>
  /\ UNCHANGED notResolve

ResolveNext == ResolveCall \/ ResolveFile \/ ResolveReturn

\* ---------------------------------------------------------- claims: resolve
\* C22: after a resolve call that returned, a later resolve call with the same
\* manifest option reads no object, opens no file for writing, does not
\* fail, and returns the same directory.
C22_ResolveIdempotent ==
  \A i, j \in 1..Len(zCalls) :
    (i < j /\ zCalls[i].result = "ok" /\ zCalls[i].manifest = zCalls[j].manifest)
      => /\ zCalls[j].reads = 0
         /\ zCalls[j].writes = {}
         /\ zCalls[j].result # "failed"
         /\ zCalls[j].dir = zCalls[i].dir

\* the second call repeats a first one that wrote a sharded and an unsharded
\* file, and has returned
C22_Witness ==
  /\ Len(zCalls) = 2
  /\ zCalls[1].result = "ok" /\ zCalls[1].writes = {"a", "b"} /\ zCalls[1].reads > 2
  /\ zCalls[2].result = "ok" /\ zCalls[2].manifest = zCalls[1].manifest
  /\ zFm.files["a"].shards # <<>> /\ zFm.files["b"].shards = <<>>
  /\ Len(zEvents) = 3

\* C23: with verification enabled, a resolve call that returned leaves, for
\* every file of its list, a file whose SHA-256 is the one its filemap entry
\* declares, whether the entry is sharded or not (a file whose bytes do not
\* hash to it makes the call fail and is removed).
C23_VerifiedFilesOnly ==
  (zVerify /\ zPc = "done" /\ ThisCall.result = "ok")
    => \A i \in 1..Len(ThisList) :
         LET vp == ThisList[i] IN
         /\ zOut[ThisCall.dir][vp] # NoFile
         /\ Sha256(zOut[ThisCall.dir][vp]) = zFm.files[vp].sha256

\* >= between two percent values as JavaScript evaluates it: false when either
\* side is NaN
PercentGeq(p, q) == ~p.nan /\ ~q.nan /\ p.val >= q.val

\* C24: in the onProgress events of one resolve call every percent is >= the
\* percent of the event before it, and the last event of a call that returned
\* has done = true and percent = 100.
C24_ResolveProgress ==
  /\ \A i \in 2..Len(zEvents) : PercentGeq(zEvents[i].percent, zEvents[i - 1].percent)
  /\ (zPc = "done" /\ ThisCall.result = "ok")
       => /\ zEvents # <<>>
          /\ zEvents[Len(zEvents)].done
          /\ zEvents[Len(zEvents)].percent = Num(100)

\* --------------------------------------------------------- model-packager.sh
\* The files of the input folder of a run, as relative paths <<directory,
\* basename>> in the order `find | sort -z` lists them ("a/cfg", "a/m.onnx",
\* "b/m.onnx").  The virtual path of a file is its relative path, its flat
\* CDN name is its basename.  No input is a GGUF file.
VpOrder == << <<"a", "cfg">>, <<"a", "m.onnx">>, <<"b", "m.onnx">> >>
PackVps == {VpOrder[i] : i \in 1..Len(VpOrder)}
Basename(vp) == vp[2]
SortVps(S) == SelectSeq(VpOrder, LAMBDA v : v \in S)

\* the inputs of one run: the bytes of the files found
InputSets ==
  UNION {[S -> Contents \ {<<>>}] :
           S \in {T \in SUBSET PackVps : T # {} /\ Cardinality(T) <= MaxInputs}}

NoFilemap == [exists |-> FALSE, files |-> <<>>, manifests |-> <<>>]
ShardedMark == <<"sharded">>

\* positions in filemap.files (file order) of the entries with a property
FirstWith(files, P(_)) ==
  IF \E i \in 1..Len(files) : P(files[i])
    THEN CHOOSE i \in 1..Len(files) : P(files[i]) /\ \A j \in 1..(i - 1) : ~P(files[j])
    ELSE 0

EntryAt(files, vp) == files[FirstWith(files, LAMBDA e : e.vp = vp)]
HasVp(files, vp) == \E i \in 1..Len(files) : files[i].vp = vp

\* load_existing_filemap: _KV_HASHES answers with the first line of a hash,
\* "sharded" or the cdn_file; _KV_CDN holds every object name of the filemap
KvHashHas(files, hash) == \E i \in 1..Len(files) : files[i].sha256 = hash
KvHashGet(files, hash) ==
  LET e == files[FirstWith(files, LAMBDA x : x.sha256 = hash)] IN
  IF e.shards # <<>> THEN ShardedMark ELSE e.cdn_file

EntryNames(e) ==
  IF e.shards # <<>> THEN {e.shards[k].file : k \in 1..Len(e.shards)} ELSE {e.cdn_file}
KvCdn(files) == UNION {EntryNames(files[i]) : i \in 1..Len(files)}

\* Phase 3: DELIV_SKIP of one deliverable
DelivSkip(inputs, fm, vp) ==
  IF fm.exists /\ KvHashHas(fm.files, Sha256(inputs[vp]))
    THEN IF KvHashGet(fm.files, Sha256(inputs[vp])) = ShardedMark THEN "sharded" ELSE "yes"
    ELSE "no"

\* Phase 3: merge_conflicts is not empty
MergeConflicts(inputs, fm) ==
  LET new == {vp \in DOMAIN inputs : DelivSkip(inputs, fm, vp) = "no"} IN
  \/ \E vp \in new :
       /\ fm.exists
       /\ \/ Direct(Basename(vp)) \in KvCdn(fm.files)
          \/ /\ needs_byte_split(inputs[vp])
             /\ \E n \in KvCdn(fm.files) : n[1] = Basename(vp) /\ n[2] >= 1
  \/ \E v1, v2 \in new : v1 # v2 /\ Basename(v1) = Basename(v2)

RECURSIVE SortNats(_)
SortNats(S) ==
  IF S = {} THEN <<>>
  ELSE LET m == CHOOSE x \in S : \A y \in S : x <= y IN <<m>> \o SortNats(S \ {m})

\* Phase 4, sharded: the shard list is read back from the directory with the
\* glob "fn.shard.*", in name order, each offset the sum of the sizes before
GlobShards(out, fn) ==
  LET ks == SortNats({n[2] : n \in {x \in DOMAIN out : x[1] = fn /\ x[2] >= 1}}) IN
  [j \in 1..Len(ks) |->
     [file |-> ShardName(fn, ks[j]),
      offset |-> SumSeq([i \in 1..(j - 1) |-> Len(out[ShardName(fn, ks[i])])]),
      size |-> Len(out[ShardName(fn, ks[j])])]]

\* Phase 4: the deliverables from position i on, in order; acc holds the
\* directory, the entries of FILEMAP_ENTRIES and the names written so far
\* What goes wrong in a run: nothing; the hashing of deliverable `at` in
\* Phase 3; or split / cp of deliverable `at` in Phase 4 after `done` bytes
\* (no space left, source unreadable).  set -e ends the script there.
NoFail == [stage |-> "none", at |-> 0, done |-> 0]

\* what an interrupted split leaves: the pieces before byte `done`, the last
\* of them cut short
SplitInterrupted(fn, bytes, done) ==
  LET c == done \div ChunkSize IN
  [n \in {ShardName(fn, k) : k \in 1..(c + 1)} |->
     IF n[2] <= c THEN ShardOf(bytes, n[2]) ELSE SubSeq(bytes, c * ChunkSize + 1, done)]

RECURSIVE Phase4(_, _, _, _, _, _)
Phase4(deliv, inputs, fm, fail, i, acc) ==
  IF i > Len(deliv) \/ acc.failed THEN acc
  ELSE
    LET vp == deliv[i]
        bytes == inputs[vp]
        skip == DelivSkip(inputs, fm, vp)
        fn == Basename(vp)
        base == [vp |-> vp, size |-> Len(bytes), sha256 |-> Sha256(bytes)]
    IN
    IF skip = "yes"
      THEN Phase4(deliv, inputs, fm, fail, i + 1,
             [acc EXCEPT !.entries = Append(@,
                base @@ [cdn_file |-> KvHashGet(fm.files, Sha256(bytes)), shards |-> <<>>])])
    ELSE IF skip = "sharded"
      THEN Phase4(deliv, inputs, fm, fail, i + 1,
             [acc EXCEPT !.entries = Append(@,
                base @@ [cdn_file |-> NoName,
                         shards |-> fm.files[FirstWith(fm.files,
                            LAMBDA e : e.sha256 = Sha256(bytes) /\ e.shards # <<>>)].shards])])
    ELSE IF fail.stage = "write" /\ fail.at = i
      THEN IF needs_byte_split(bytes)
             THEN LET left == SplitInterrupted(fn, bytes, fail.done)
                      cut == ShardName(fn, fail.done \div ChunkSize + 1)
                  IN [acc EXCEPT !.out = left @@ acc.out,
                                 !.wrote = @ \cup (DOMAIN left \ {cut}),
                                 !.unfinished = @ \cup {cut},
                                 !.failed = TRUE]
             ELSE [acc EXCEPT !.out = (Direct(fn) :> SubSeq(bytes, 1, fail.done)) @@ acc.out,
                              !.unfinished = @ \cup {Direct(fn)},
                              !.failed = TRUE]
    ELSE IF needs_byte_split(bytes)
      THEN LET out1 == FileObjects(fn, bytes) @@ acc.out IN
           Phase4(deliv, inputs, fm, fail, i + 1,
             [acc EXCEPT !.out = out1,
                         !.entries = Append(@,
                            base @@ [cdn_file |-> NoName, shards |-> GlobShards(out1, fn)]),
                         !.wrote = @ \cup DOMAIN FileObjects(fn, bytes),
                         !.unfinished = @ \ DOMAIN FileObjects(fn, bytes)])
    ELSE Phase4(deliv, inputs, fm, fail, i + 1,
             [acc EXCEPT !.out = (Direct(fn) :> bytes) @@ acc.out,
                         !.entries = Append(@, base @@ [cdn_file |-> Direct(fn), shards |-> <<>>]),
                         !.wrote = @ \cup {Direct(fn)},
                         !.unfinished = @ \ {Direct(fn)}])

\* Phase 5, merge: existing['files'].update(new_data['files'])
MergeFiles(old, new) ==
  [i \in 1..Len(old) |-> IF HasVp(new, old[i].vp) THEN EntryAt(new, old[i].vp) ELSE old[i]]
    \o SelectSeq(new, LAMBDA e : ~HasVp(old, e.vp))

FilesBytes(files, vps) ==
  SumSeq([i \in 1..Len(vps) |-> IF HasVp(files, vps[i]) THEN EntryAt(files, vps[i]).size ELSE 0])

\* Phase 5b, auto-detect mode: a file ending in .onnx goes to the group named
\* after its stem, every other file is shared; one manifest per group, added
\* to (or replacing one of) the manifests kept from the existing filemap
OnnxGroup(vp) == IF Basename(vp) = "m.onnx" THEN "m" ELSE ""

AutoManifests(files, existing_manifests) ==
  LET vps == {files[i].vp : i \in 1..Len(files)}
      shared == {vp \in vps : OnnxGroup(vp) = ""}
      names == {OnnxGroup(vp) : vp \in vps} \ {""}
      auto == [name \in names |->
                LET mf == SortVps(shared \cup {vp \in vps : OnnxGroup(vp) = name}) IN
                [files |-> mf, size |-> FilesBytes(files, mf)]]
  IN auto @@ existing_manifests

\* PackRun is one run of the script with inputs, --merge or not, --manifest
\* NAME or not (manifest = ""), on the directory `out` with the filemap fm:
\* what it leaves and how it exits.
\* PackStop: the script ends before Phase 4, nothing was written
PackStop(out, fm, code) ==
  [out |-> out, fm |-> fm, exit |-> code, wrote |-> {}, unfinished |-> {}, failed |-> FALSE]

\* from the merge-collision test to the end of the script
PackWrite(inputs, merge, manifest, fail, out, fm) ==
  IF merge /\ MergeConflicts(inputs, fm)
    THEN PackStop(out, fm, 1)
  ELSE
    LET p4 == Phase4(SortVps(DOMAIN inputs), inputs, fm, fail, 1,
                     [out |-> out, entries |-> <<>>, wrote |-> {},
                      unfinished |-> {}, failed |-> FALSE])
        files5 == IF merge /\ fm.exists THEN MergeFiles(fm.files, p4.entries) ELSE p4.entries
        manifests5 == IF merge /\ fm.exists THEN fm.manifests ELSE <<>>
        done == [out |-> p4.out, fm |-> fm, exit |-> 1, wrote |-> p4.wrote,
                 unfinished |-> p4.unfinished, failed |-> p4.failed]
    IN
    IF p4.failed
      THEN \* split or cp failed: the script ends in Phase 4
           done
    ELSE IF manifest # ""
      THEN \* Phase 5b, explicit mode: `if gguf_metadata_all:` raises NameError
           \* before the manifests are stored; set -e ends the script
           [done EXCEPT !.fm = [exists |-> TRUE, files |-> files5, manifests |-> manifests5]]
    ELSE [done EXCEPT !.fm = [exists |-> TRUE, files |-> files5,
                              manifests |-> AutoManifests(files5, manifests5)],
                      !.exit = 0]

\* the script without the `if $HAS_EXISTING && ! $MERGE` block of Phase 3b
PackRunNoAnalysis(inputs, merge, manifest, fail, out, fm) ==
  IF ~fm.exists /\ out # <<>>
    THEN PackStop(out, fm, 1)
  ELSE IF fail.stage = "hash"
    THEN [PackStop(out, fm, 1) EXCEPT !.failed = TRUE]
  ELSE PackWrite(inputs, merge, manifest, fail, out, fm)

PackRun(inputs, merge, manifest, fail, out, fm) ==
  IF ~fm.exists /\ out # <<>>
    THEN \* "output directory has N files but no filemap.json"
         PackStop(out, fm, 1)
  ELSE IF fail.stage = "hash"
    THEN \* Phase 3: hash=$(file_sha256 "$pp") fails
         [PackStop(out, fm, 1) EXCEPT !.failed = TRUE]
  ELSE IF fm.exists /\ ~merge
    THEN \* Phase 3b: the analysis is printed, nothing is written
         PackStop(out, fm, 0)
  ELSE PackWrite(inputs, merge, manifest, fail, out, fm)

PackInit ==
  /\ pOut = <<>>
  /\ pFm = NoFilemap
  /\ pHist = <<>>

PackIdle ==
  /\ pOut = <<>>
  /\ pFm = NoFilemap
  /\ pHist = <<"idle">>

\* the run r of the script on the directory as it is
Ran(inputs, merge, manifest, r) ==
  /\ pOut' = r.out
  /\ pFm' = r.fm
  /\ pHist' = Append(pHist,
       [inputs |-> inputs, merge |-> merge, manifest |-> manifest,
        exit |-> r.exit, wrote |-> r.wrote, before |-> pFm, after |-> r.fm,
        unfinished |-> r.unfinished, failed |-> r.failed])

Pack ==
  /\ Len(pHist) < MaxPackRuns
  /\ \E inputs \in InputSets, merge \in BOOLEAN, manifest \in {"", "x"} :
       Ran(inputs, merge, manifest, PackRun(inputs, merge, manifest, NoFail, pOut, pFm))
  /\ UNCHANGED notPack

PackNext == Pack

\* Runs that can be interrupted: one input file per run, manifests
\* auto-detected; the failures that can strike the run's one deliverable
OneFileInputs == {inputs \in InputSets : Cardinality(DOMAIN inputs) = 1}

Failures(bytes) ==
  {[stage |-> "hash", at |-> 1, done |-> 0]}
    \cup {[stage |-> "write", at |-> 1, done |-> d] : d \in 0..(Len(bytes) - 1)}

PackOne ==
  /\ Len(pHist) < MaxFailRuns
  /\ \E inputs \in OneFileInputs, merge \in BOOLEAN :
       Ran(inputs, merge, "", PackRun(inputs, merge, "", NoFail, pOut, pFm))
  /\ UNCHANGED notPack

\* a run in which hashing, split or cp fails
PackInterrupted ==
  /\ Len(pHist) < MaxFailRuns
  /\ \E inputs \in OneFileInputs, merge \in BOOLEAN :
       \E fail \in Failures(inputs[CHOOSE vp \in DOMAIN inputs : TRUE]) :
         LET r == PackRun(inputs, merge, "", fail, pOut, pFm) IN
         /\ r.failed
         /\ Ran(inputs, merge, "", r)
  /\ UNCHANGED notPack

PackFailNext == PackOne \/ PackInterrupted

\* --------------------------------------------------------- claims: packager
\* what resolving a filemap entry against the directory yields
EntryBytes(e, out) == reassembleFile(e.vp, e, NoFile, out, FALSE, 0).file

\* two inputs of the run, or an input and an entry of the existing filemap,
\* have different SHA-256 and the same flat CDN name
SameNameCollision(inputs, fm) ==
  \/ \E v1, v2 \in DOMAIN inputs :
       Basename(v1) = Basename(v2) /\ Sha256(inputs[v1]) # Sha256(inputs[v2])
  \/ \E v \in DOMAIN inputs : \E i \in 1..Len(fm.files) :
       /\ Sha256(inputs[v]) # fm.files[i].sha256
       /\ DOMAIN FileObjects(Basename(v), inputs[v]) \cap EntryNames(fm.files[i]) # {}

\* a run that packages: on a directory without filemap.json, or with --merge
\* (any other run only prints the analysis of Phase 3b and exits 0)
Packaging(h) == h.merge \/ ~h.before.exists

\* C26: a packaging run in which two deliverables with different SHA-256 would get the
\* same flat CDN name exits non-zero and has written no CDN object and no
\* filemap; and after every run the objects of every filemap entry hold
\* bytes whose SHA-256 is the entry's sha256.
C26_CollisionAborts ==
  /\ \A i \in 1..Len(pHist) :
       (Packaging(pHist[i]) /\ SameNameCollision(pHist[i].inputs, pHist[i].before))
         => /\ pHist[i].exit # 0
            /\ pHist[i].wrote = {}
            /\ pHist[i].after = pHist[i].before
  /\ \A i \in 1..Len(pFm.files) :
       Sha256(EntryBytes(pFm.files[i], pOut)) = pFm.files[i].sha256

\* C27: every sharded entry of filemap.json has shards[0].offset = 0, every
\* later offset equal to the previous offset plus the previous size, and
\* shard sizes that sum to the entry's size.
C27_ShardsContiguous ==
  \A i \in 1..Len(pFm.files) :
    LET e == pFm.files[i] IN
    e.shards # <<>>
      => /\ e.shards[1].offset = 0
         /\ \A k \in 2..Len(e.shards) :
              e.shards[k].offset = e.shards[k - 1].offset + e.shards[k - 1].size
         /\ SumSeq([k \in 1..Len(e.shards) |-> e.shards[k].size]) = e.size

\* C28: every manifest of filemap.json has size equal to the sum of
\* files[vp].size over the virtual paths it lists.
C28_ManifestSizes ==
  \A name \in DOMAIN pFm.manifests :
    pFm.manifests[name].size = FilesBytes(pFm.files, pFm.manifests[name].files)

\* C29: when a run on an empty directory has packaged the inputs I and the
\* next run packages the same I with --merge and the same manifest option,
\* that run writes no CDN object and leaves the filemap's files and
\* manifests as they were.
C29_DedupIdempotent ==
  \A i \in 1..(Len(pHist) - 1) :
    (/\ ~pHist[i].before.exists /\ ~pHist[i].merge /\ pHist[i].exit = 0
     /\ pHist[i + 1].merge
     /\ pHist[i + 1].inputs = pHist[i].inputs
     /\ pHist[i + 1].manifest = pHist[i].manifest)
    => /\ pHist[i + 1].wrote = {}
       /\ pHist[i + 1].after.files = pHist[i].after.files
       /\ pHist[i + 1].after.manifests = pHist[i].after.manifests

\* C30: after a run that packaged its inputs and exited 0, resolving the
\* package yields at the virtual path of every input the bytes of that input.
C30_PackResolveRoundTrip ==
  (pHist # <<>> /\ pHist[Len(pHist)].exit = 0 /\ Packaging(pHist[Len(pHist)]))
    => \A vp \in DOMAIN pHist[Len(pHist)].inputs :
         /\ HasVp(pFm.files, vp)
         /\ EntryBytes(EntryAt(pFm.files, vp), pOut) = pHist[Len(pHist)].inputs[vp]

\* the objects some run left half-written and no later run wrote again
NotFinished ==
  {n \in UNION {pHist[i].unfinished : i \in 1..Len(pHist)} :
     \E i \in 1..Len(pHist) :
       /\ n \in pHist[i].unfinished
       /\ \A j \in (i + 1)..Len(pHist) : n \notin pHist[j].wrote}

\* C36: a run in which hashing, split or cp fails ends with a non-zero exit
\* and leaves filemap.json as it was, and the filemap on disk never names an
\* object that was left half-written.
C36_FilemapAfterObjects ==
  /\ \A i \in 1..Len(pHist) :
       pHist[i].failed => (pHist[i].exit # 0 /\ pHist[i].after = pHist[i].before)
  /\ pFm.exists => KvCdn(pFm.files) \cap NotFinished = {}

\* the first half alone: the interrupted run itself stops before Phase 5
C36_AbortedRunStops ==
  \A i \in 1..Len(pHist) :
    pHist[i].failed => (pHist[i].exit # 0 /\ pHist[i].after = pHist[i].before)

\* C40: a run on a directory that holds a filemap.json, without --merge,
\* writes no object and no shard and leaves the directory and the filemap as
\* they were, with or without collisions.
C40_AnalysisOnly ==
  [][(pHist' # pHist /\ pFm.exists /\ ~pHist'[Len(pHist')].merge)
       => /\ pOut' = pOut
          /\ pFm' = pFm
          /\ pHist'[Len(pHist')].wrote = {}]_vars

\* such a run has been made with an input that collides with the package
C40_Witness ==
  \E i \in 1..Len(pHist) :
    /\ pHist[i].before.exists
    /\ ~pHist[i].merge
    /\ MergeConflicts(pHist[i].inputs, pHist[i].before)
    /\ pHist[i].exit = 0

\* ---------------------------------------------------------- specifications
InitRange == RangeInit /\ ShardIdle /\ NodeIdle /\ ProgIdle /\ FmapIdle /\ MatchIdle /\ HookIdle /\ ResolveIdle /\ PackIdle
SpecRange == InitRange /\ [][RangeNext]_vars

InitShard == ShardInit /\ RangeIdle /\ NodeIdle /\ ProgIdle /\ FmapIdle /\ MatchIdle /\ HookIdle /\ ResolveIdle /\ PackIdle
SpecShard == InitShard /\ [][ShardNext]_vars

InitNode == NodeInit /\ RangeIdle /\ ShardIdle /\ ProgIdle /\ FmapIdle /\ MatchIdle /\ HookIdle /\ ResolveIdle /\ PackIdle
SpecNode == InitNode /\ [][NodeNext]_vars

Init == ProgInit /\ RangeIdle /\ ShardIdle /\ NodeIdle /\ FmapIdle /\ MatchIdle /\ HookIdle /\ ResolveIdle /\ PackIdle
InitFmap == FmapInit /\ RangeIdle /\ ShardIdle /\ NodeIdle /\ ProgIdle /\ MatchIdle /\ HookIdle /\ ResolveIdle /\ PackIdle
SpecFmap == InitFmap /\ [][FmapNext]_vars

InitMatch == MatchInit /\ RangeIdle /\ ShardIdle /\ NodeIdle /\ ProgIdle /\ FmapIdle /\ HookIdle /\ ResolveIdle /\ PackIdle
SpecMatch == InitMatch /\ [][MatchNext]_vars

InitHook == HookInit /\ RangeIdle /\ ShardIdle /\ NodeIdle /\ ProgIdle /\ FmapIdle /\ MatchIdle /\ ResolveIdle /\ PackIdle
SpecHook == InitHook /\ [][HookNext]_vars

InitResolve == ResolveInit /\ RangeIdle /\ ShardIdle /\ NodeIdle /\ ProgIdle /\ FmapIdle /\ MatchIdle /\ HookIdle /\ PackIdle
SpecResolve == InitResolve /\ [][ResolveNext]_vars

InitPack == PackInit /\ RangeIdle /\ ShardIdle /\ NodeIdle /\ ProgIdle /\ FmapIdle /\ MatchIdle /\ HookIdle /\ ResolveIdle
SpecPack == InitPack /\ [][PackNext]_vars
SpecPackFail == InitPack /\ [][PackFailNext]_vars

Next == ProgNext
Spec == Init /\ [][Next]_vars

\* a request in flight goes on: its awaited fetch settles, with bytes or
\* with an error
RequestGoesOn == \E r \in BagToSet(reqs) : RequestChunk(r) \/ RequestFail(r)

\* the progress machine with its timers and its requests: a timeout that
\* stays set runs, a request that stays in flight goes on
SpecLive ==
  /\ Init /\ [][Next]_vars
  /\ WF_vars(BroadcastTimerFire) /\ WF_vars(IdleTimerFire)
  /\ WF_vars(RequestGoesOn)

=============================================================================
